---- MODULE Spec2Model ----
(***************************************************************************)
(* Verification model of genelet/horizon: the Scope Tree (utils.Tree), the *)
(* value conversion layer (utils cty <-> native), the generic map decoder  *)
(* and encoder (dethcl decodeBody / encodeMap) and the struct decoder      *)
(* (dethcl UnmarshalSpecTree).                                             *)
(***************************************************************************)
EXTENDS Integers, Sequences, FiniteSets, TLC

(***************************************************************************)
(* Bounds of the model.                                                    *)
(***************************************************************************)
NumProcs == 2
MaxNodes == 3
MaxCalls == 2

Procs == 1..NumProcs
NodeNames == {"a", "b"}

\* nil *Tree
NoNode == 0
\* sync.RWMutex with no writer
NoWriter == 0

VARIABLES
  \* ---- utils.Tree heap: node id = index into these sequences
  Name,      \* Tree.Name
  Up,        \* Tree.Up
  Downs,     \* Tree.Downs
  mu,        \* Tree.mu : [w: writer goroutine or NoWriter, r: set of readers]
  \* ---- goroutines calling Tree methods
  pc,        \* position of each goroutine inside the method it runs
  opname,    \* the method the goroutine runs (or ran last)
  self,      \* receiver of the AddNode / lookup step in progress
  path,      \* names still to be consumed by AddNodes / GetNode
  first,     \* local 'first' / 'down' / 'next' of the method
  ret,       \* value returned by the last finished call
  calls,     \* number of calls started so far
  deletes    \* number of DeleteNode bodies executed so far

treeVars == <<Name, Up, Downs, mu, pc, opname, self, path, first, ret, calls, deletes>>

VARIABLES
  \* ---- utils value conversion
  conv,      \* last ConvertCtyToFieldType call: value, target type, result
  rt         \* NativeToCty / CtyToNative round trip in progress

numVars == <<conv, rt>>

VARIABLES
  \* ---- dethcl generic decoder and encoder
  gen        \* round trip in progress: document, first result, text, second result

genVars == <<gen>>

VARIABLES
  \* ---- dethcl.UnmarshalSpec into a struct
  heap,      \* the Go values pointers refer to; heap[1] is the caller's target
  ref,       \* the caller's type registry
  work,      \* the registry the decoder made for itself when the caller's is nil
  spec,      \* the caller's shape specification
  frames,    \* the activations of UnmarshalSpecTree, innermost last
  scope,     \* the scope tree: node path -> the node's Data
  call       \* what the caller passed, and what it got back

decVars == <<heap, ref, work, spec, frames, scope, call>>

VARIABLES
  \* ---- concurrent UnmarshalSpec calls on one registry and one specification
  sreg,      \* the registry map the calls share
  sspec,     \* the specification the calls share
  strees,    \* the scope trees: tree -> the goroutines that have used it
  gos,       \* each goroutine's position, its node, the map it is writing
  shared     \* the caller has built the registry and the specification

shareVars == <<sreg, sspec, strees, gos, shared>>

VARIABLES
  \* ---- dethcl.UnmarshalSpec into a struct with block fields of every shape
  zoo,       \* the call in progress: its inputs, the step it is at, the outcome
  zheap      \* the Go values pointers refer to; zheap[1] is the caller's target

shapeVars == <<zoo, zheap>>

VARIABLES
  \* ---- the three entry points of the decoder and what the caller passes
  entry      \* the function called, its arguments, and what came back

entryVars == <<entry>>

VARIABLES
  \* ---- the classification of one struct field by its hcl tag
  fld        \* the field, the path that classified it, the bucket it is in

fldVars == <<fld>>

VARIABLES
  \* ---- Tree.FindNode on a tree built by one goroutine
  ft,        \* the tree: the name and the children of every node
  fcall      \* the FindNode call: receiver, names, what it returned

findVars == <<ft, fcall>>

VARIABLES
  \* ---- FindNode, Variables and CtyVariables next to the other methods of the tree
  stack,     \* the activations of the walk each goroutine is in, innermost last
  walks      \* number of walks started so far

lockVars == <<stack, walks>>

VARIABLES
  \* ---- the encoder's and the shared classification of one struct field
  cls

classifyVars == <<cls>>

VARIABLES
  \* ---- Marshal of one entry of a map of structs with label fields
  hdr

headerVars == <<hdr>>

VARIABLES
  \* ---- categorizeHCLBody on one body: the body, the tags and the result
  prt

partitionVars == <<prt>>

VARIABLES
  \* ---- one body's blocks registered in the scope tree and looked up
  rgs

registerVars == <<rgs>>

VARIABLES
  \* ---- evaluateExpressions on one body in one order of its attributes
  evl

evaluateVars == <<evl>>

\* the variables added for the later components
moreVars == <<shareVars, shapeVars, entryVars, fldVars, findVars, lockVars, classifyVars, headerVars, partitionVars, registerVars, evaluateVars>>

vars == <<treeVars, numVars, genVars, decVars, moreVars>>

\* what the methods of one component leave alone
nonTreeVars == <<numVars, genVars, decVars, moreVars>>
nonNumVars == <<treeVars, genVars, decVars, moreVars>>
nonGenVars == <<treeVars, numVars, decVars, moreVars>>
nonDecVars == <<treeVars, numVars, genVars, moreVars>>
nonShareVars == <<treeVars, numVars, genVars, decVars, shapeVars, entryVars, fldVars, findVars, lockVars, classifyVars, headerVars, partitionVars, registerVars, evaluateVars>>
nonShapeVars == <<treeVars, numVars, genVars, decVars, shareVars, entryVars, fldVars, findVars, lockVars, classifyVars, headerVars, partitionVars, registerVars, evaluateVars>>
nonEntryVars == <<treeVars, numVars, genVars, decVars, shareVars, shapeVars, fldVars, findVars, lockVars, classifyVars, headerVars, partitionVars, registerVars, evaluateVars>>
nonFldVars == <<treeVars, numVars, genVars, decVars, shareVars, shapeVars, entryVars, findVars, lockVars, classifyVars, headerVars, partitionVars, registerVars, evaluateVars>>
nonFindVars == <<treeVars, numVars, genVars, decVars, shareVars, shapeVars, entryVars, fldVars, lockVars, classifyVars, headerVars, partitionVars, registerVars, evaluateVars>>
\* the walks are methods of the tree: they leave alone what is neither
\* the tree's nor their own
nonLockVars == <<numVars, genVars, decVars, shareVars, shapeVars, entryVars, fldVars, findVars, classifyVars, headerVars, partitionVars, registerVars, evaluateVars>>
nonClassifyVars == <<treeVars, numVars, genVars, decVars, shareVars, shapeVars, entryVars, fldVars, findVars, lockVars, headerVars, partitionVars, registerVars, evaluateVars>>
nonHeaderVars == <<treeVars, numVars, genVars, decVars, shareVars, shapeVars, entryVars, fldVars, findVars, lockVars, classifyVars, partitionVars, registerVars, evaluateVars>>
nonPartitionVars == <<treeVars, numVars, genVars, decVars, shareVars, shapeVars, entryVars, fldVars, findVars, lockVars, classifyVars, headerVars, registerVars, evaluateVars>>
nonRegisterVars == <<treeVars, numVars, genVars, decVars, shareVars, shapeVars, entryVars, fldVars, findVars, lockVars, classifyVars, headerVars, partitionVars, evaluateVars>>
nonEvaluateVars == <<treeVars, numVars, genVars, decVars, shareVars, shapeVars, entryVars, fldVars, findVars, lockVars, classifyVars, headerVars, partitionVars, registerVars>>

(***************************************************************************)
(* utils.Tree                                                              *)
(***************************************************************************)
TreeNodeVar == "var"
VAR == TreeNodeVar

FreeMutex == [w |-> NoWriter, r |-> {}]

Nodes == 1..Len(Name)

\* findNodeByName that never finds an existing child
findNodeByNameNever(downs, name) == NoNode
findNodeByName(downs, name) ==
  IF \E i \in 1..Len(downs) : Name[downs[i]] = name
    THEN downs[CHOOSE i \in 1..Len(downs) :
                 /\ Name[downs[i]] = name
                 /\ \A j \in 1..(i-1) : Name[downs[j]] # name]
    ELSE NoNode

\* a Lock() that never waits
CanLockAlways(n) == TRUE
CanLock(n) == mu[n].w = NoWriter /\ mu[n].r = {}

\* mu.RLock() can be acquired
CanRLock(n) == mu[n].w = NoWriter

\* nodes that calls in progress may still allocate
Pending ==
  LET RECURSIVE Sum(_)
      Sum(S) == IF S = {} THEN 0
                ELSE LET p == CHOOSE x \in S : TRUE
                     IN (IF opname[p] \in {"AddNode", "AddNodes"} /\ pc[p] # "idle"
                           THEN Len(path[p]) ELSE 0) + Sum(S \ {p})
  IN Sum(Procs)

CanCall(p) == pc[p] = "idle" /\ calls < MaxCalls

StartCall(p, op, n, names, at) ==
  /\ opname' = [opname EXCEPT ![p] = op]
  /\ self' = [self EXCEPT ![p] = n]
  /\ path' = [path EXCEPT ![p] = names]
  /\ first' = [first EXCEPT ![p] = NoNode]
  /\ pc' = [pc EXCEPT ![p] = at]
  /\ calls' = calls + 1
  /\ UNCHANGED <<Name, Up, Downs, mu, ret, deletes>>
  /\ UNCHANGED nonTreeVars

Return(p, v) ==
  /\ ret' = [ret EXCEPT ![p] = v]
  /\ self' = [self EXCEPT ![p] = NoNode]
  /\ path' = [path EXCEPT ![p] = <<>>]
  /\ first' = [first EXCEPT ![p] = NoNode]
  /\ pc' = [pc EXCEPT ![p] = "idle"]

\* tree.AddNode(name)
CallAddNode(p) ==
  \E n \in Nodes, name \in NodeNames :
    /\ CanCall(p)
    /\ Len(Name) + Pending + 1 <= MaxNodes
    /\ StartCall(p, "AddNode", n, <<name>>, "add_lock")

\* tree.AddNodes(tag, name)
CallAddNodes(p) ==
  \E n \in Nodes, tag \in NodeNames, name \in NodeNames :
    /\ CanCall(p)
    /\ Len(Name) + Pending + 2 <= MaxNodes
    /\ StartCall(p, "AddNodes", n, <<tag, name>>, "add_lock")

\* self.mu.Lock(); first := findNodeByName(self.Downs, name)
AddNodeLock(p) ==
  /\ pc[p] = "add_lock"
  /\ CanLock(self[p])
  /\ mu' = [mu EXCEPT ![self[p]].w = p]
  /\ first' = [first EXCEPT ![p] = findNodeByName(Downs[self[p]], Head(path[p]))]
  /\ pc' = [pc EXCEPT ![p] = "add_body"]
  /\ UNCHANGED <<Name, Up, Downs, opname, self, path, ret, calls, deletes>>
  /\ UNCHANGED nonTreeVars

\* the deferred self.mu.Unlock()
Unlock(p) == mu' = [mu EXCEPT ![self[p]].w = IF @ = p THEN NoWriter ELSE @]

\* return of AddNode; AddNodes goes on with the next name below the node
AddNodeReturn(p, node) ==
  IF Len(path[p]) = 1
    THEN Return(p, node)
    ELSE /\ self' = [self EXCEPT ![p] = node]
         /\ path' = [path EXCEPT ![p] = Tail(@)]
         /\ first' = [first EXCEPT ![p] = NoNode]
         /\ pc' = [pc EXCEPT ![p] = "add_lock"]
         /\ UNCHANGED <<ret>>

\* if first != nil { return first }
AddNodeFound(p) ==
  /\ pc[p] = "add_body"
  /\ first[p] # NoNode
  /\ Unlock(p)
  /\ AddNodeReturn(p, first[p])
  /\ UNCHANGED <<Name, Up, Downs, opname, calls, deletes>>
  /\ UNCHANGED nonTreeVars

\* child := NewTree(name); self.Downs = append(self.Downs, child); child.Up = self
AddNodeAppend(p) ==
  /\ pc[p] = "add_body"
  /\ first[p] = NoNode
  /\ LET child == Len(Name) + 1
     IN /\ Name' = Append(Name, Head(path[p]))
        /\ Up' = Append(Up, self[p])
        /\ Downs' = Append([Downs EXCEPT ![self[p]] = Append(@, child)], <<>>)
        /\ mu' = Append([mu EXCEPT ![self[p]].w = IF @ = p THEN NoWriter ELSE @], FreeMutex)
        /\ AddNodeReturn(p, child)
  /\ UNCHANGED <<opname, calls, deletes>>
  /\ UNCHANGED nonTreeVars

\* tree.DeleteNode(name)
CallDeleteNode(p) ==
  \E n \in Nodes, name \in NodeNames :
    /\ CanCall(p)
    /\ StartCall(p, "DeleteNode", n, <<name>>, "del_lock")

DeleteNodeLock(p) ==
  /\ pc[p] = "del_lock"
  /\ CanLock(self[p])
  /\ mu' = [mu EXCEPT ![self[p]].w = p]
  /\ pc' = [pc EXCEPT ![p] = "del_body"]
  /\ UNCHANGED <<Name, Up, Downs, opname, self, path, first, ret, calls, deletes>>
  /\ UNCHANGED nonTreeVars

\* Downs without its first element named name
RemoveFirstNamed(downs, name) ==
  IF findNodeByName(downs, name) = NoNode THEN downs
  ELSE LET i == CHOOSE k \in 1..Len(downs) :
                  /\ Name[downs[k]] = name
                  /\ \A j \in 1..(k-1) : Name[downs[j]] # name
       IN SubSeq(downs, 1, i-1) \o SubSeq(downs, i+1, Len(downs))

\* the loop of DeleteNode and the deferred Unlock
DeleteNodeBody(p) ==
  /\ pc[p] = "del_body"
  /\ Downs' = [Downs EXCEPT ![self[p]] = RemoveFirstNamed(@, Head(path[p]))]
  /\ Unlock(p)
  /\ deletes' = deletes + 1
  /\ Return(p, NoNode)
  /\ UNCHANGED <<Name, Up, opname, calls>>
  /\ UNCHANGED nonTreeVars

\* tree.GetNode(tag, name); tag may be ""
CallGetNode(p) ==
  \E n \in Nodes, tag \in NodeNames \cup {""}, names \in {<<>>} \cup {<<x>> : x \in NodeNames} :
    /\ CanCall(p)
    /\ StartCall(p, "GetNode", n, <<tag>> \o names, "get_enter")

\* if tag == "" { return self }
GetNodeEnter(p) ==
  /\ pc[p] = "get_enter"
  /\ IF Head(path[p]) = ""
       THEN Return(p, self[p]) /\ UNCHANGED <<mu>>
       ELSE /\ CanRLock(self[p])
            /\ mu' = [mu EXCEPT ![self[p]].r = @ \cup {p}]
            /\ pc' = [pc EXCEPT ![p] = "get_find"]
            /\ UNCHANGED <<self, path, first, ret>>
  /\ UNCHANGED <<Name, Up, Downs, opname, calls, deletes>>
  /\ UNCHANGED nonTreeVars

\* self.mu.RLock() of the next node on the path
GetNodeRLock(p) ==
  /\ pc[p] = "get_rlock"
  /\ CanRLock(self[p])
  /\ mu' = [mu EXCEPT ![self[p]].r = @ \cup {p}]
  /\ pc' = [pc EXCEPT ![p] = "get_find"]
  /\ UNCHANGED <<Name, Up, Downs, opname, self, path, first, ret, calls, deletes>>
  /\ UNCHANGED nonTreeVars

\* down := findNodeByName(...); RUnlock(); nil ends the walk
GetNodeFind(p) ==
  /\ pc[p] = "get_find"
  /\ mu' = [mu EXCEPT ![self[p]].r = @ \ {p}]
  /\ LET down == findNodeByName(Downs[self[p]], Head(path[p]))
     IN IF down = NoNode \/ Len(path[p]) = 1
          THEN Return(p, down)
          ELSE /\ self' = [self EXCEPT ![p] = down]
               /\ path' = [path EXCEPT ![p] = Tail(@)]
               /\ first' = [first EXCEPT ![p] = down]
               /\ pc' = [pc EXCEPT ![p] = "get_rlock"]
               /\ UNCHANGED <<ret>>
  /\ UNCHANGED <<Name, Up, Downs, opname, calls, deletes>>
  /\ UNCHANGED nonTreeVars

TreeStart ==
  /\ Name = <<VAR>>
  /\ Up = <<NoNode>>
  /\ Downs = << <<>> >>
  /\ mu = <<FreeMutex>>
  /\ pc = [p \in Procs |-> "idle"]
  /\ opname = [p \in Procs |-> "none"]
  /\ self = [p \in Procs |-> NoNode]
  /\ path = [p \in Procs |-> <<>>]
  /\ first = [p \in Procs |-> NoNode]
  /\ ret = [p \in Procs |-> NoNode]
  /\ calls = 0
  /\ deletes = 0

TreeStep ==
  \E p \in Procs :
    \/ CallAddNode(p)
    \/ CallAddNodes(p)
    \/ AddNodeLock(p)
    \/ AddNodeFound(p)
    \/ AddNodeAppend(p)
    \/ CallDeleteNode(p)
    \/ DeleteNodeLock(p)
    \/ DeleteNodeBody(p)
    \/ CallGetNode(p)
    \/ GetNodeEnter(p)
    \/ GetNodeRLock(p)
    \/ GetNodeFind(p)

(***************************************************************************)
(* Numbers.  A cty.Number holds a big.Float; the model keeps the sign, the *)
(* integer part as 16-bit limbs (least significant first) and whether a    *)
(* fractional part of one half follows it.                                 *)
(***************************************************************************)
LimbBase == 256 * 256
LimbIdx == 1..5

BigZero == [i \in LimbIdx |-> 0]

BigFromInt(n) ==
  [i \in LimbIdx |-> IF i = 1 THEN n % LimbBase
                     ELSE IF i = 2 THEN n \div LimbBase ELSE 0]

BigPow2(k) == [i \in LimbIdx |-> IF i = (k \div 16) + 1 THEN 2^(k % 16) ELSE 0]

BigAdd(a, b) ==
  LET c[i \in LimbIdx] ==
        IF i = 1 THEN 0 ELSE (a[i-1] + b[i-1] + c[i-1]) \div LimbBase
  IN [i \in LimbIdx |-> (a[i] + b[i] + c[i]) % LimbBase]

\* a - b modulo LimbBase^5
BigSub(a, b) ==
  LET w[i \in LimbIdx] ==
        IF i = 1 THEN 0 ELSE IF a[i-1] - b[i-1] - w[i-1] < 0 THEN 1 ELSE 0
  IN [i \in LimbIdx |-> (a[i] - b[i] - w[i] + LimbBase) % LimbBase]

BigLess(a, b) ==
  \E i \in LimbIdx : a[i] < b[i] /\ \A j \in LimbIdx : j > i => a[j] = b[j]

BigLeq(a, b) == a = b \/ BigLess(a, b)

\* the low 'bits' bits of a
BigLow(a, bits) ==
  [i \in LimbIdx |-> IF 16 * i <= bits THEN a[i]
                     ELSE IF 16 * (i - 1) < bits THEN a[i] % 2^(bits - 16 * (i - 1))
                     ELSE 0]

BigOne == BigFromInt(1)

\* a number: sign, integer part of the magnitude, fractional part present
Num(neg, mag, frac) == [neg |-> neg /\ (mag # BigZero \/ frac), mag |-> mag, frac |-> frac]
NumInt(neg, mag) == Num(neg, mag, FALSE)
NumZero == NumInt(FALSE, BigZero)

\* x < y for whole numbers
IntLess(x, y) ==
  IF x.neg /\ ~y.neg THEN TRUE
  ELSE IF ~x.neg /\ y.neg THEN FALSE
  ELSE IF x.neg THEN BigLess(y.mag, x.mag)
  ELSE BigLess(x.mag, y.mag)

MaxInt64 == BigSub(BigPow2(63), BigOne)
MaxUint64 == BigSub(BigPow2(64), BigOne)

\* (*big.Float).Int64: the truncated value, saturated, and its accuracy
Int64(bf) ==
  IF ~bf.neg /\ BigLess(MaxInt64, bf.mag)
    THEN [iv |-> NumInt(FALSE, MaxInt64), acc |-> "Below"]
  ELSE IF bf.neg /\ (BigLess(BigPow2(63), bf.mag) \/ (bf.mag = BigPow2(63) /\ bf.frac))
    THEN [iv |-> NumInt(TRUE, BigPow2(63)), acc |-> "Above"]
  ELSE [iv |-> NumInt(bf.neg, bf.mag),
        acc |-> IF ~bf.frac THEN "Exact" ELSE IF bf.neg THEN "Above" ELSE "Below"]

\* (*big.Float).Uint64
Uint64(bf) ==
  IF bf.neg THEN [iv |-> NumZero, acc |-> "Above"]
  ELSE IF BigLess(MaxUint64, bf.mag) THEN [iv |-> NumInt(FALSE, MaxUint64), acc |-> "Below"]
  ELSE [iv |-> NumInt(FALSE, bf.mag), acc |-> IF bf.frac THEN "Below" ELSE "Exact"]

\* (*big.Float).Int(nil): accuracy only
IntAccuracy(bf) == IF ~bf.frac THEN "Exact" ELSE IF bf.neg THEN "Above" ELSE "Below"

\* reflect.Value.SetInt on a target of the given width: int8(x), int16(x), ...
SetInt(iv, bits) ==
  LET pattern == IF iv.neg THEN BigLow(BigSub(BigZero, iv.mag), 64) ELSE BigLow(iv.mag, 64)
      low == BigLow(pattern, bits)
  IN IF BigLeq(BigPow2(bits - 1), low)
       THEN NumInt(TRUE, BigSub(BigPow2(bits), low))
       ELSE NumInt(FALSE, low)

\* reflect.Value.SetUint on a target of the given width
SetUint(uv, bits) == NumInt(FALSE, BigLow(uv.mag, bits))

SignedKinds == {"int8", "int16", "int32", "int64", "int"}
UnsignedKinds == {"uint8", "uint16", "uint32", "uint64", "uint"}
IntKinds == SignedKinds \cup UnsignedKinds
FloatKinds == {"float32", "float64"}

\* reflect.Type.Bits; int and uint are those of a 64-bit build
Bits(kind) ==
  IF kind \in {"int8", "uint8"} THEN 8
  ELSE IF kind \in {"int16", "uint16"} THEN 16
  ELSE IF kind \in {"int32", "uint32", "float32"} THEN 32
  ELSE 64

\* Go values: numbers, strings, booleans, the nil interface
GoNum(kind, num) == [kind |-> kind, num |-> num]
GoString(s) == [kind |-> "string", s |-> s]
GoBool(b) == [kind |-> "bool", b |-> b]
GoNil == [kind |-> "nil"]

\* a (value, error) pair with a nil error
Native(v) == [err |-> FALSE, v |-> v]
\* a failed conversion: the target keeps its zero value
Failed(kind) == [err |-> TRUE, v |-> IF kind \in IntKinds \cup FloatKinds THEN GoNum(kind, NumZero) ELSE GoNil]

\* gocty fromCtyNumberInt: exact, in range, or an error
fromCtyNumberInt(bf, kind) ==
  LET r == Int64(bf)
      min == NumInt(TRUE, BigPow2(Bits(kind) - 1))
      max == NumInt(FALSE, BigSub(BigPow2(Bits(kind) - 1), BigOne))
  IN IF r.acc # "Exact" \/ IntLess(r.iv, min) \/ IntLess(max, r.iv)
       THEN Failed(kind)
       ELSE Native(GoNum(kind, SetInt(r.iv, Bits(kind))))

\* fromCtyNumberUInt without its range test
fromCtyNumberUIntUnchecked(bf, kind) == Native(GoNum(kind, SetUint(Uint64(bf).iv, Bits(kind))))
\* gocty fromCtyNumberUInt
fromCtyNumberUInt(bf, kind) ==
  LET r == Uint64(bf)
      max == NumInt(FALSE, BigSub(BigPow2(Bits(kind)), BigOne))
  IN IF r.acc # "Exact" \/ IntLess(max, r.iv)
       THEN Failed(kind)
       ELSE Native(GoNum(kind, SetUint(r.iv, Bits(kind))))

\* gocty fromCtyNumberFloat; the fractional values of the model (n + 1/2 with
\* n below 2^23) are exact in both float widths
fromCtyNumberFloat(bf, kind) == Native(GoNum(kind, bf))

\* cty values of the conversion layer
CtyNumber(num) == [t |-> "number", num |-> num]
CtyNull == [t |-> "null", num |-> NumZero]

\* gocty.FromCtyValue for a number and a numeric target
FromCtyValue(val, kind) ==
  IF val.t # "number" THEN Failed(kind)
  ELSE IF kind \in SignedKinds THEN fromCtyNumberInt(val.num, kind)
  ELSE IF kind \in UnsignedKinds THEN fromCtyNumberUInt(val.num, kind)
  ELSE fromCtyNumberFloat(val.num, kind)

\* ConvertCtyToFieldType for a null or number value and an integer target
ConvertCtyToFieldType(ctyVal, targetType) ==
  IF ctyVal.t = "null" THEN Native(GoNum(targetType, NumZero))
  ELSE LET r == FromCtyValue(ctyVal, targetType)
       IN IF r.err THEN Failed("nil") ELSE r

\* NativeToCty for a Go number: gocty.ToCtyValue with the implied type cty.Number
NativeToCty(item) == CtyNumber(item.num)

MaxInt32 == NumInt(FALSE, BigSub(BigPow2(31), BigOne))
MinInt32 == NumInt(TRUE, BigPow2(31))

\* CtyNumberToNative that always answers with a float64
CtyNumberToNativeAsFloat(val) == fromCtyNumberFloat(val.num, "float64")
CtyNumberToNative(val) ==
  LET v == val.num
  IN IF Int64(v).acc \in {"Exact", "Above"}
       THEN LET r == FromCtyValue(val, "int64")
            IN IF IntLess(MaxInt32, r.v.num) \/ IntLess(r.v.num, MinInt32)
                 THEN r
                 ELSE [r EXCEPT !.v.kind = "int"]
     ELSE IF IntAccuracy(v) \in {"Exact", "Above"}
       THEN FromCtyValue(val, "int")
     ELSE IF BigLess(v.mag, BigPow2(23))
       THEN FromCtyValue(val, "float32")
     ELSE FromCtyValue(val, "float64")

\* CtyToNative for null and number values
CtyToNative(val) ==
  IF val.t = "null" THEN Native(GoNil)
  ELSE CtyNumberToNative(val)

(***************************************************************************)
(* Inputs of the conversion layer: the edges of every integer width.       *)
(***************************************************************************)
MaxDelta == 1
EdgeBits == {7, 8, 15, 16, 31, 32, 63, 64}

Magnitudes ==
  {BigZero, BigFromInt(42), BigFromInt(300)}
    \cup {BigAdd(BigPow2(k), BigFromInt(d)) : k \in EdgeBits, d \in 0..MaxDelta}
    \cup {BigSub(BigPow2(k), BigFromInt(d)) : k \in EdgeBits, d \in 0..MaxDelta}

CtyNumbers == {CtyNumber(Num(neg, m, f)) : neg \in BOOLEAN, m \in Magnitudes, f \in BOOLEAN}

\* Go numbers handed to NativeToCty
NativeInputs ==
  {GoNum(k, NumInt(neg, m)) : k \in {"int", "int64"}, neg \in BOOLEAN,
      m \in {x \in Magnitudes : BigLeq(x, MaxInt64)}}
    \cup {GoNum("int64", NumInt(TRUE, BigPow2(63)))}
    \cup {GoNum("uint64", NumInt(FALSE, m)) : m \in {x \in Magnitudes : BigLeq(x, MaxUint64)}}

NoResult == Native(GoNil)
ConvIdle == [op |-> "idle", val |-> CtyNull, type |-> "nil", res |-> NoResult]
RtIdle == [stage |-> "idle", native |-> GoNil, cty |-> CtyNull, back |-> NoResult]

NumStart == conv = ConvIdle /\ rt = RtIdle

NumIsIdle == conv.op = "idle" /\ rt.stage = "idle"

ConvertStep ==
  /\ NumIsIdle
  /\ \E v \in CtyNumbers \cup {CtyNull}, ty \in IntKinds :
       conv' = [op |-> "done", val |-> v, type |-> ty, res |-> ConvertCtyToFieldType(v, ty)]
  /\ UNCHANGED rt
  /\ UNCHANGED nonNumVars

NativeToCtyStep ==
  /\ NumIsIdle
  /\ \E n \in NativeInputs :
       rt' = [stage |-> "cty", native |-> n, cty |-> NativeToCty(n), back |-> NoResult]
  /\ UNCHANGED conv
  /\ UNCHANGED nonNumVars

CtyToNativeStep ==
  /\ rt.stage = "cty"
  /\ rt' = [rt EXCEPT !.stage = "native", !.back = CtyToNative(rt.cty)]
  /\ UNCHANGED conv
  /\ UNCHANGED nonNumVars

\* numbers handed to CtyToNative directly: whole or not, of either sign
NumberInputs ==
  CtyNumbers \cup {CtyNumber(Num(neg, BigOne, f)) : neg \in BOOLEAN, f \in BOOLEAN}

\* a caller converts a number it evaluated
CallCtyToNative ==
  /\ NumIsIdle
  /\ \E v \in NumberInputs :
       conv' = [op |-> "native", val |-> v, type |-> "any", res |-> CtyToNative(v)]
  /\ UNCHANGED rt
  /\ UNCHANGED nonNumVars

\* the caller drops the results and goes on
NumReset ==
  /\ conv.op # "idle" \/ rt.stage = "native"
  /\ conv' = ConvIdle
  /\ rt' = RtIdle
  /\ UNCHANGED nonNumVars


NextNum ==
  \/ ConvertStep
  \/ NativeToCtyStep
  \/ CtyToNativeStep
  \/ CallCtyToNative
  \/ NumReset


(***************************************************************************)
(* HCL syntax trees (hclsyntax.Body, Attribute, Block, Expression) and the *)
(* Go values the generic decoder builds from them.                         *)
(***************************************************************************)
CtyString(s) == [t |-> "string", s |-> s]
CtyBool(b) == [t |-> "bool", b |-> b]
CtyInt(n) == CtyNumber(NumInt(FALSE, BigFromInt(n)))

\* expressions
Lit(val) == [e |-> "lit", val |-> val]
Call(name) == [e |-> "call", name |-> name]
\* a reference to a variable: a ScopeTraversalExpr of one step
Var(name) == [e |-> "var", name |-> name]
Tuple(items) == [e |-> "tuple", items |-> items]
Object(items) == [e |-> "object", items |-> items]

\* a body: attributes by name, blocks in document order
Body(attrs, blocks) == [attrs |-> attrs, blocks |-> blocks]
Block(type, labels, body) == [type |-> type, labels |-> labels, body |-> body]
NoAttrs == [k \in {} |-> Lit(CtyNull)]
EmptyBody == Body(NoAttrs, <<>>)

\* []any (nil when nothing was appended) and map[string]any
GoSlice(items) == [kind |-> "slice", isnil |-> Len(items) = 0, items |-> items]
GoMap(m) == [kind |-> "map", m |-> m]
NoEntries == [k \in {} |-> GoNil]

\* ctx.Variables of a decode with a nil ref
NoVariables == [k \in {} |-> CtyNull]

\* names in sort.Strings order
KeyOrder == <<"b", "k", "l", "m", "n", "x", "y">>
SortedKeys(S) == SelectSeq(KeyOrder, LAMBDA k : k \in S)

\* m with the entries of n laid over it
Overlay(m, n) == [k \in DOMAIN m \cup DOMAIN n |-> IF k \in DOMAIN n THEN n[k] ELSE m[k]]

\* ExpressionToCty for a literal, a variable reference or a function call.
\* variables is ctx.Variables: CtyVariables of the tree in ref[ATTRIBUTES],
\* empty when ref is nil; hasFunctions is ref != nil && ref[FUNCTIONS] != nil.
\* A reference to a variable the context does not have is an error of
\* v.Value(ctx), and so is a call when the context has no function table.
ExpressionToCty(variables, hasFunctions, v) ==
  IF v.e = "lit" THEN [err |-> FALSE, cv |-> v.val]
  ELSE IF v.e = "var"
    THEN IF v.name \in DOMAIN variables THEN [err |-> FALSE, cv |-> variables[v.name]]
         ELSE [err |-> TRUE, cv |-> CtyNull]
  ELSE IF hasFunctions /\ v.name = "null" THEN [err |-> FALSE, cv |-> CtyNull]
  ELSE [err |-> TRUE, cv |-> CtyNull]

\* CtyToNative for the primitive types
CtyToNativeAny(val) ==
  IF val.t = "string" THEN Native(GoString(val.s))
  ELSE IF val.t = "bool" THEN Native(GoBool(val.b))
  ELSE CtyToNative(val)

RECURSIVE expressionToNative(_, _)
RECURSIVE decodeBody(_, _)

\* the results of a sequence of decodes, or the first error
Collect(results) ==
  IF \E i \in DOMAIN results : results[i].err
    THEN [err |-> TRUE, vs |-> <<>>]
    ELSE [err |-> FALSE, vs |-> [i \in DOMAIN results |-> results[i].v]]

decodeTuple(hasFunctions, tuple) ==
  LET r == Collect([i \in DOMAIN tuple.items |-> expressionToNative(hasFunctions, tuple.items[i])])
  IN IF r.err THEN Failed("nil") ELSE Native(GoSlice(r.vs))

decodeObject(hasFunctions, exprs) ==
  LET r == [k \in DOMAIN exprs.items |-> expressionToNative(hasFunctions, exprs.items[k])]
  IN IF \E k \in DOMAIN r : r[k].err
       THEN Failed("nil")
       ELSE Native(GoMap([k \in DOMAIN r |-> r[k].v]))

expressionToNative(hasFunctions, item) ==
  IF item.e = "tuple" THEN decodeTuple(hasFunctions, item)
  ELSE IF item.e = "object" THEN decodeObject(hasFunctions, item)
  ELSE LET c == ExpressionToCty(NoVariables, hasFunctions, item)
       IN IF c.err THEN Failed("nil") ELSE CtyToNativeAny(c.cv)

\* the blocks of a body with the given type and number of labels, in order
BlocksOf(body, type, n) ==
  SelectSeq(body.blocks, LAMBDA b : b.type = type /\ Len(b.labels) = n)

BlockTypes(body, n) == {body.blocks[i].type : i \in {j \in DOMAIN body.blocks : Len(body.blocks[j].labels) = n}}

decodeBody(hasFunctions, body) ==
  LET attrs == [k \in DOMAIN body.attrs |-> expressionToNative(hasFunctions, body.attrs[k])]
      subs == [i \in DOMAIN body.blocks |-> decodeBody(hasFunctions, body.blocks[i].body)]
      \* the decoded body of the last block with these labels
      Last(type, labels) ==
        subs[CHOOSE i \in DOMAIN body.blocks :
               /\ body.blocks[i].type = type /\ body.blocks[i].labels = labels
               /\ \A j \in DOMAIN body.blocks :
                    (body.blocks[j].type = type /\ body.blocks[j].labels = labels) => j <= i].v
      Idx(type, n) == {i \in DOMAIN body.blocks :
                         body.blocks[i].type = type /\ Len(body.blocks[i].labels) = n}
      sliceVal(type) ==
        LET ix == Idx(type, 0)
            vs == [j \in 1..Cardinality(ix) |->
                     subs[CHOOSE i \in ix : Cardinality({h \in ix : h < i}) = j - 1].v]
        IN IF Len(vs) > 1 THEN GoSlice(vs) ELSE vs[1]
      mapVal(type) ==
        GoMap([l \in {body.blocks[i].labels[1] : i \in Idx(type, 1)} |-> Last(type, <<l>>)])
      map2Val(type) ==
        GoMap([l \in {body.blocks[i].labels[1] : i \in Idx(type, 2)} |->
          GoMap([m \in {body.blocks[i].labels[2] :
                          i \in {h \in Idx(type, 2) : body.blocks[h].labels[1] = l}} |->
            Last(type, <<l, m>>)])])
  IN IF \E k \in DOMAIN attrs : attrs[k].err THEN Failed("nil")
     ELSE IF \E i \in DOMAIN body.blocks : Len(body.blocks[i].labels) > 2 THEN Failed("nil")
     ELSE IF \E i \in DOMAIN subs : subs[i].err THEN Failed("nil")
     ELSE Native(GoMap(
            Overlay(Overlay(Overlay([k \in DOMAIN attrs |-> attrs[k].v],
                                    [t \in BlockTypes(body, 0) |-> sliceVal(t)]),
                            [t \in BlockTypes(body, 1) |-> mapVal(t)]),
                    [t \in BlockTypes(body, 2) |-> map2Val(t)])))

\* decodeMap: an empty document is the empty map
decodeMap(hasFunctions, body) == decodeBody(hasFunctions, body)

(***************************************************************************)
(* The generic encoder (Marshal of a map[string]any).  Its output is text; *)
(* the model keeps the text as the lines and bracketed groups it is made   *)
(* of, which ParseConfig reads back.  Strings of the model hold no quote   *)
(* or escape and numbers are integers, so a printed primitive reads back   *)
(* as the same literal.                                                    *)
(***************************************************************************)
TEmpty == [x |-> "empty"]
TScalar(v) == [x |-> "scalar", v |-> v]
TCall(name) == [x |-> "call", name |-> name]
TBrackets(items) == [x |-> "list", items |-> items]
TBraces(lines) == [x |-> "braces", lines |-> lines]
AttrLine(key, rhs) == [l |-> "attr", key |-> key, rhs |-> rhs]
BlockLine(type, labels, lines) == [l |-> "block", type |-> type, labels |-> labels, lines |-> lines]

\* a marshalLevel result: nil bytes, or text
NilBytes == [isnil |-> TRUE, text |-> TEmpty]
Bytes(text) == [isnil |-> FALSE, text |-> text]

IsPrimitive(item) == item.kind \in {"string", "bool"} \cup IntKinds \cup FloatKinds

\* reflect.Value.IsZero
IsZero(item) ==
  IF item.kind = "string" THEN item.s = ""
  ELSE IF item.kind = "bool" THEN ~item.b
  ELSE IF item.kind \in IntKinds \cup FloatKinds THEN item.num = NumZero
  ELSE IF item.kind = "slice" THEN item.isnil
  ELSE FALSE

\* classifyMapStructure
notAMap == 0
shallowMap == 1
nestedMap == 2
classifyMapStructure(item) ==
  IF item.kind # "map" THEN notAMap
  ELSE IF DOMAIN item.m = {} THEN shallowMap
  ELSE IF \A k \in DOMAIN item.m : item.m[k].kind = "map" THEN nestedMap
  ELSE shallowMap

\* the concatenation of a sequence of sequences
RECURSIVE Flatten(_)
Flatten(ss) == IF Len(ss) = 0 THEN <<>> ELSE Head(ss) \o Flatten(Tail(ss))

RECURSIVE marshalLevel(_, _)
RECURSIVE loopHash(_, _, _, _, _)

\* encodePrimitiveOrRecurse: the text after "=", empty when the recursion
\* gave nil bytes
encodePrimitiveOrRecurse(item) ==
  IF IsPrimitive(item) THEN TScalar(item)
  ELSE LET bs == marshalLevel(item, "none")
       IN IF bs.isnil THEN TEmpty ELSE bs.text

\* encodeMap: the lines of the map; keyname is "none", "marker"
\* (markerNoBrackets) or "header"
encodeMap(m, keyname) ==
  LET keys == SortedKeys(DOMAIN m)
      one(key) ==
        IF m[key].kind = "nil" THEN <<AttrLine(key, TCall("null"))>>
        ELSE IF keyname = "marker" THEN <<AttrLine(key, encodePrimitiveOrRecurse(m[key]))>>
        ELSE loopHash(key, <<>>, m[key], 0, keyname)
  IN Flatten([i \in DOMAIN keys |-> one(keys[i])])

encodeSlice(items) ==
  TBrackets([i \in DOMAIN items |->
    LET bs == marshalLevel(items[i], "marker")
    IN IF bs.isnil THEN TBrackets(<<>>) ELSE bs.text])

\* marshalLevel below the top level: zero values give nil bytes
marshalLevel(current, keyname) ==
  IF current.kind = "nil" THEN NilBytes
  ELSE IF IsZero(current) THEN NilBytes
  ELSE IF current.kind = "map" THEN Bytes(TBraces(encodeMap(current.m, keyname)))
  ELSE IF current.kind = "slice" THEN Bytes(encodeSlice(current.items))
  ELSE Bytes(encodePrimitiveOrRecurse(current))

\* loopHash that adds a label for every level of nested maps
loopHashUnlimited(type, labels, item, depth, keyname) ==
  LET mapType == classifyMapStructure(item)
  IN IF mapType = nestedMap
       THEN LET keys == SortedKeys(DOMAIN item.m)
            IN Flatten([i \in DOMAIN keys |->
                 loopHash(type, Append(labels, keys[i]), item.m[keys[i]], depth + 1, "none")])
     ELSE IF mapType = shallowMap
       THEN <<BlockLine(type, labels, marshalLevel(item, "header").text.lines)>>
     ELSE <<AttrLine(type, encodePrimitiveOrRecurse(item))>>
\* loopHash: the lines for one map entry under the header type + labels.
\* matchlast compares the last word of the header with the bytes of a map
\* or list, which begin with a brace or bracket: it never holds here.
loopHash(type, labels, item, depth, keyname) ==
  LET c == classifyMapStructure(item)
      mapType == IF depth >= 2 /\ c = nestedMap THEN shallowMap ELSE c
  IN IF mapType = nestedMap
       THEN LET keys == SortedKeys(DOMAIN item.m)
            IN Flatten([i \in DOMAIN keys |->
                 loopHash(type, Append(labels, keys[i]), item.m[keys[i]], depth + 1, "none")])
     ELSE IF mapType = shallowMap
       THEN <<BlockLine(type, labels, marshalLevel(item, "header").text.lines)>>
     ELSE <<AttrLine(type, encodePrimitiveOrRecurse(item))>>

\* Marshal of a non-nil map[string]any: level 0, no braces around the lines
Marshal(current) == encodeMap(current.m, "none")

(***************************************************************************)
(* hclsyntax.ParseConfig on the encoder's output                           *)
(***************************************************************************)
ToCty(v) ==
  IF v.kind = "string" THEN CtyString(v.s)
  ELSE IF v.kind = "bool" THEN CtyBool(v.b)
  ELSE CtyNumber(v.num)

ParseErr == [err |-> TRUE, expr |-> Lit(CtyNull)]
Parsed(expr) == [err |-> FALSE, expr |-> expr]

RECURSIVE ParseExpr(_)
ParseExpr(text) ==
  IF text.x = "empty" THEN ParseErr
  ELSE IF text.x = "scalar" THEN Parsed(Lit(ToCty(text.v)))
  ELSE IF text.x = "call" THEN Parsed(Call(text.name))
  ELSE IF text.x = "list"
    THEN LET ps == [i \in DOMAIN text.items |-> ParseExpr(text.items[i])]
         IN IF \E i \in DOMAIN ps : ps[i].err THEN ParseErr
            ELSE Parsed(Tuple([i \in DOMAIN ps |-> ps[i].expr]))
  ELSE \* braces after "=": an object constructor, whose items all need "="
    LET ix == DOMAIN text.lines
        keys == {text.lines[i].key : i \in {j \in ix : text.lines[j].l = "attr"}}
        ps == [k \in keys |-> ParseExpr((text.lines[CHOOSE i \in ix :
                  text.lines[i].l = "attr" /\ text.lines[i].key = k]).rhs)]
    IN IF \E i \in ix : text.lines[i].l = "block" THEN ParseErr
       ELSE IF \E k \in keys : ps[k].err THEN ParseErr
       ELSE Parsed(Object([k \in keys |-> ps[k].expr]))

RECURSIVE ParseBody(_)
ParseBody(lines) ==
  LET ix == DOMAIN lines
      attrIx == {i \in ix : lines[i].l = "attr"}
      keys == {lines[i].key : i \in attrIx}
      ps == [k \in keys |-> ParseExpr((lines[CHOOSE i \in attrIx : lines[i].key = k]).rhs)]
      blockLines == SelectSeq(lines, LAMBDA ln : ln.l = "block")
      bs == [i \in DOMAIN blockLines |-> ParseBody(blockLines[i].lines)]
  IN IF (\E k \in keys : ps[k].err) \/ (\E i \in DOMAIN bs : bs[i].err)
       THEN [err |-> TRUE, body |-> EmptyBody]
       ELSE [err |-> FALSE,
             body |-> Body([k \in keys |-> ps[k].expr],
                           [i \in DOMAIN blockLines |->
                              Block(blockLines[i].type, blockLines[i].labels, bs[i].body)])]

(***************************************************************************)
(* Documents handed to the generic decoder, and the round trip of          *)
(* testHCLRoundTrip: Unmarshal, Marshal, Unmarshal.                        *)
(***************************************************************************)
MaxList == 2
MaxBlocks == 2

ScalarLits ==
  {Lit(CtyString("a")), Lit(CtyString("")), Lit(CtyInt(0)), Lit(CtyInt(7)),
   Lit(CtyBool(TRUE)), Lit(CtyBool(FALSE))}

ObjectOf(key, expr) == Object([k \in {key} |-> expr])
EmptyObject == Object(NoAttrs)

ListItems == {Lit(CtyString("a")), Lit(CtyInt(0)), EmptyObject, ObjectOf("k", Lit(CtyInt(7)))}

Tuples == UNION {{Tuple(items) : items \in [1..n -> ListItems]} : n \in 0..MaxList}

Objects ==
  {EmptyObject, ObjectOf("k", Lit(CtyString("a"))), ObjectOf("k", Tuple(<<>>)),
   ObjectOf("k", ObjectOf("l", Lit(CtyInt(7))))}

NullExprs == {Lit(CtyNull), Call("null")}

AttrExprs == ScalarLits \cup Tuples \cup Objects \cup NullExprs

AttrSets == {NoAttrs} \cup {[k \in {"x"} |-> expr] : expr \in AttrExprs}

LeafBodies == {EmptyBody, Body([k \in {"y"} |-> Lit(CtyInt(7))], <<>>)}

LabelLists == {<<>>, <<"l">>, <<"l", "m">>, <<"l", "m", "n">>}

GenBlocks == {Block("b", labels, body) : labels \in LabelLists, body \in LeafBodies}

BlockLists == UNION {[1..n -> GenBlocks] : n \in 0..MaxBlocks}

GenericDocs == {Body(attrs, blocks) : attrs \in AttrSets, blocks \in BlockLists}

NoText == <<>>
GenIdle == [stage |-> "idle", doc |-> EmptyBody, first |-> NoResult, text |-> NoText,
            second |-> NoResult]

GenStart == gen = GenIdle

\* dethcl.Unmarshal(raw, &hash) with hash an empty map: UnmarshalSpec with no
\* specification and no registry, unmarshalToMap, decodeMap with a nil ref
UnmarshalMap(body) == decodeMap(FALSE, body)

UnmarshalFirst ==
  /\ gen.stage = "idle"
  /\ \E doc \in GenericDocs :
       gen' = [GenIdle EXCEPT !.stage = "decoded", !.doc = doc, !.first = UnmarshalMap(doc)]
  /\ UNCHANGED nonGenVars

\* bs, err := dethcl.Marshal(hash)
MarshalStep ==
  /\ gen.stage = "decoded"
  /\ ~gen.first.err
  /\ gen' = [gen EXCEPT !.stage = "encoded", !.text = Marshal(gen.first.v)]
  /\ UNCHANGED nonGenVars

\* dethcl.Unmarshal(bs, &hash1)
UnmarshalSecond ==
  /\ gen.stage = "encoded"
  /\ LET p == ParseBody(gen.text)
     IN gen' = [gen EXCEPT !.stage = "redecoded",
                           !.second = IF p.err THEN Failed("nil") ELSE UnmarshalMap(p.body)]
  /\ UNCHANGED nonGenVars

\* maps nested to a depth: a scalar or an empty map, a map with one entry,
\* a map with a nested entry next to a scalar one
MaxDepth == 4

RECURSIVE DeepValues(_)
DeepValues(d) ==
  IF d = 0 THEN {GoNum("int", NumInt(FALSE, BigFromInt(7))), GoMap(NoEntries)}
  ELSE LET below == DeepValues(d - 1)
       IN below
            \cup {GoMap([a \in {key} |-> v]) : key \in {"k", "l"}, v \in below}
            \cup {GoMap([a \in {"k", "l"} |-> IF a = "k" THEN v ELSE GoString("a")]) :
                    v \in below}

DeepMaps == {GoMap([a \in {"x"} |-> v]) : v \in DeepValues(MaxDepth)}

\* dethcl.Marshal(hash) of a map the caller built
MarshalDeep ==
  /\ gen.stage = "idle"
  /\ \E hash \in DeepMaps :
       gen' = [GenIdle EXCEPT !.stage = "deep", !.first = Native(hash), !.text = Marshal(hash)]
  /\ UNCHANGED nonGenVars

GenReset ==
  /\ gen.stage \in {"decoded", "redecoded", "deep"}
  /\ gen' = GenIdle
  /\ UNCHANGED nonGenVars

NextGeneric ==
  \/ UnmarshalFirst
  \/ MarshalStep
  \/ UnmarshalSecond
  \/ MarshalDeep
  \/ GenReset

(***************************************************************************)
(* Decoding into a struct: UnmarshalSpec, UnmarshalSpecTree and the steps  *)
(* it runs.  The targets are two struct types of the kind the package's    *)
(* tests declare:                                                          *)
(*   Outer { Title string `hcl:"title,optional"`                           *)
(*           Count uint8  `hcl:"count,optional"`                           *)
(*           Svc   *Inner `hcl:"svc,block"` }                              *)
(*   Inner { Type string `hcl:"type,label"`                                *)
(*           Name string `hcl:"name,label"`                                *)
(*           Port uint8  `hcl:"port,optional"` }                           *)
(***************************************************************************)
TagModifierLabel == "label"

\* reflect.StructField: Name, the two parts of the hcl tag, the kind of the
\* field's type and, for a pointer, the struct it points to
Field(name, tag, modifier, kind, elem) ==
  [Name |-> name, tag |-> tag, modifier |-> modifier, kind |-> kind, elem |-> elem]

StructTypes == {"Outer", "Inner"}

(***************************************************************************)
(* Block fields of every shape.  The target is                             *)
(*   Zoo { One  Animal               `hcl:"one,block"`                     *)
(*         List []Animal             `hcl:"list,block"`                    *)
(*         Map  map[string]Animal    `hcl:"map,block"`                     *)
(*         Map2 map[[2]string]Animal `hcl:"map2,block"` }                  *)
(* with Animal an interface that *Inner implements.  The specification     *)
(* names every field, so each is a block field whose classes come from the *)
(* specification and whose prototypes come from the registry.              *)
(***************************************************************************)
ZooFields ==
  <<Field("One", "one", "block", "iface", ""),
    Field("List", "list", "block", "slice", ""),
    Field("Map", "map", "block", "map", ""),
    Field("Map2", "map2", "block", "map2", ""),
    Field("Dict", "dict", "block", "map", "")>>

StructFields(type) ==
  IF type = "Zoo" THEN ZooFields
  ELSE IF type = "Outer"
    THEN <<Field("Title", "title", "optional", "string", ""),
           Field("Count", "count", "optional", "uint8", ""),
           Field("Svc", "svc", "block", "ptr", "Inner")>>
    ELSE <<Field("Type", "type", TagModifierLabel, "string", ""),
           Field("Name", "name", TagModifierLabel, "string", ""),
           Field("Port", "port", "optional", "uint8", "")>>

FieldNames(type) == {StructFields(type)[i].Name : i \in DOMAIN StructFields(type)}

\* fieldType.String()
TypeName(type) == IF type = "Inner" THEN "dethcl.Inner" ELSE "dethcl.Outer"

\* pointers into the heap; address 0 is nil
NilAddr == 0
GoPtr(addr) == [kind |-> "ptr", addr |-> addr]

\* the zero value of a type of the given kind
ZeroOf(kind) ==
  IF kind = "string" THEN GoString("")
  ELSE IF kind = "ptr" THEN GoPtr(NilAddr)
  ELSE IF kind = "iface" THEN GoNil
  ELSE IF kind = "slice" THEN GoSlice(<<>>)
  ELSE IF kind \in {"map", "map2"} THEN GoMap(NoEntries)
  ELSE GoNum(kind, NumZero)

\* a struct value: its type and its fields by name
GoStruct(type, f) == [kind |-> "struct", type |-> type, f |-> f]

\* t.FieldByName(name)
FieldByName(type, name) ==
  StructFields(type)[CHOOSE i \in DOMAIN StructFields(type) : StructFields(type)[i].Name = name]

\* reflect.New(t).Elem(): the zero struct
ZeroStruct(type) ==
  GoStruct(type, [n \in FieldNames(type) |-> ZeroOf(FieldByName(type, n).kind)])

\* m with the entry k set to v
Put(m, k, v) == [x \in DOMAIN m \cup {k} |-> IF x = k THEN v ELSE m[x]]

(***************************************************************************)
(* The type registry (ref map[string]any) and the shape specification      *)
(* (a utils.Struct).  A registry entry is the scope tree, the function     *)
(* table, or a pointer to a prototype struct; "by" tells a prototype the   *)
(* caller put there from one the decoder made with reflect.New.            *)
(***************************************************************************)
ATTRIBUTES == "attributes"
FUNCTIONS == "functions"

TreeEntry == [kind |-> "tree"]
FuncsEntry == [kind |-> "funcs"]
Proto(type, by) == [kind |-> "proto", type |-> type, by |-> by]

NoRegistry == [k \in {} |-> TreeEntry]
NilRef == [isnil |-> TRUE, m |-> NoRegistry]
RefOf(m) == [isnil |-> FALSE, m |-> m]

\* utils.Value holding a SingleStruct: NewValue(className)
NewValue(className) == [ClassName |-> className]
NoFields == [k \in {} |-> NewValue("")]

\* utils.Struct: a nil pointer, or ClassName and Fields (a nil or non-nil map)
NilSpec == [isnil |-> TRUE, ClassName |-> "", hasFields |-> FALSE, Fields |-> NoFields]
NewStruct(className, hasFields, fields) ==
  [isnil |-> FALSE, ClassName |-> className, hasFields |-> hasFields, Fields |-> fields]

\* spec.GetFields(): nil for a nil spec or nil Fields
GetFields(s) == IF s.isnil \/ ~s.hasFields THEN [isnil |-> TRUE, m |-> NoFields]
                ELSE [isnil |-> FALSE, m |-> s.Fields]

\* NewTreeCtyFunction on the caller's registry: a nil registry is replaced by
\* a map of the decoder's own, a non-nil one is written to in place
NewTreeCtyFunction(callerRef) ==
  LET withTree(m) == IF ATTRIBUTES \in DOMAIN m THEN m ELSE Put(m, ATTRIBUTES, TreeEntry)
      withFuncs(m) == IF FUNCTIONS \in DOMAIN m THEN m ELSE Put(m, FUNCTIONS, FuncsEntry)
  IN IF callerRef.isnil
       THEN [ref |-> callerRef, work |-> [own |-> TRUE, m |-> withFuncs(withTree(NoRegistry))]]
       ELSE [ref |-> RefOf(withFuncs(withTree(callerRef.m))),
             work |-> [own |-> FALSE, m |-> NoRegistry]]

\* the node NewTreeCtyFunction returns, as a tree that never forgets: the
\* tree of the registry even when the registry has none yet
NewTreeCtyFunctionNodeKept(callerRef, held) == held
\* the node NewTreeCtyFunction returns: the tree the registry holds under
\* ATTRIBUTES (held is that tree as it is now), NewTree(VAR) when it has none
NewTreeCtyFunctionNode(callerRef, held) ==
  IF ~callerRef.isnil /\ ATTRIBUTES \in DOMAIN callerRef.m THEN held
  ELSE [p \in {<<>>} |-> [k \in {} |-> CtyNull]]

\* the map the decoder's ref variable points to
Registry(callerRef, wk) == IF wk.own THEN wk.m ELSE callerRef.m

NoData == [k \in {} |-> CtyNull]

Root == <<>>

\* CtyVariables of the root of the scope tree: the root's own items by name.
\* The items of a node below the root come as an object under the node's
\* name, and the whole map again under "var"; the documents refer to a
\* variable by its bare name only, so the root's items are what they see.
CtyVariables(sc) == sc[Root]

\* evaluateExpressions: every attribute is evaluated, replaced by its value
\* and stored in the node; the names of the null ones are returned.  On an
\* error the attributes ranged over before it stay stored; nothing reads
\* the node after the error, so the data is left as it was.  variables is
\* what CtyVariables gives for the tree in ref[ATTRIBUTES] when the loop
\* starts; the documents have no attribute that refers to another attribute
\* of the same body, so the order of the loop does not show.
evaluateExpressions(reg, variables, data, bd) ==
  LET cvs == [k \in DOMAIN bd.attrs |->
                ExpressionToCty(IF ATTRIBUTES \in DOMAIN reg THEN variables ELSE NoVariables,
                                FUNCTIONS \in DOMAIN reg, bd.attrs[k])]
  IN IF \E k \in DOMAIN cvs : cvs[k].err
       THEN [err |-> TRUE, kNulls |-> {}, data |-> data, bd |-> bd]
       ELSE [err |-> FALSE,
             kNulls |-> {k \in DOMAIN cvs : cvs[k].cv.t = "null"},
             data |-> [k \in DOMAIN data \cup DOMAIN cvs |->
                         IF k \in DOMAIN cvs THEN cvs[k].cv ELSE data[k]],
             bd |-> Body([k \in DOMAIN cvs |-> Lit(cvs[k].cv)], bd.blocks)]

\* the node paths AddNodes(block.Type, block.Labels...) makes under node
BlockPaths(node, block) ==
  {node \o SubSeq(<<block.type>> \o block.labels, 1, n) : n \in 1..(1 + Len(block.labels))}

\* addBlocksToTree: the scope tree with the nodes of the blocks added
addBlocksToTree(sc, node, blocks) ==
  LET new == UNION {BlockPaths(node, blocks[i]) : i \in DOMAIN blocks}
  IN [p \in DOMAIN sc \cup new |-> IF p \in DOMAIN sc THEN sc[p] ELSE NoData]

\* structFieldCategories, with the field map and the registry as the loop
\* leaves them
NoCategories(om, reg) ==
  [Labels |-> <<>>, SimpleFields |-> <<>>, BlockFields |-> <<>>, om |-> om, reg |-> reg]

\* one turn of the loop of categorizeStructFields that writes over a field
\* entry the specification already has
categorizeFieldReplacing(c, field, nullAttrs) ==
  IF field.tag \in nullAttrs THEN c
  ELSE IF field.modifier = TagModifierLabel THEN [c EXCEPT !.Labels = Append(@, field)]
  ELSE IF field.kind = "ptr"
    THEN [c EXCEPT !.reg = Put(@, TypeName(field.elem), Proto(field.elem, "decode")),
                   !.om = Put(@, field.Name, NewValue(TypeName(field.elem))),
                   !.BlockFields = Append(@, field)]
  ELSE [c EXCEPT !.SimpleFields = Append(@, field)]
\* one turn of the loop of categorizeStructFields
categorizeField(c, field, nullAttrs) ==
  IF field.tag \in nullAttrs THEN c
  ELSE IF field.modifier = TagModifierLabel THEN [c EXCEPT !.Labels = Append(@, field)]
  ELSE IF field.Name \in DOMAIN c.om THEN [c EXCEPT !.BlockFields = Append(@, field)]
  ELSE IF field.kind = "ptr"
    THEN [c EXCEPT !.reg = Put(@, TypeName(field.elem), Proto(field.elem, "decode")),
                   !.om = Put(@, field.Name, NewValue(TypeName(field.elem))),
                   !.BlockFields = Append(@, field)]
  ELSE [c EXCEPT !.SimpleFields = Append(@, field)]

RECURSIVE categorizeFrom(_, _, _, _)
categorizeFrom(c, fields, i, nullAttrs) ==
  IF i > Len(fields) THEN c
  ELSE categorizeFrom(categorizeField(c, fields[i], nullAttrs), fields, i + 1, nullAttrs)

categorizeStructFields(structType, objectMap, reg, nullAttrs) ==
  categorizeFrom(NoCategories(objectMap, reg), StructFields(structType), 1, nullAttrs)

\* buildTagIndex
buildTagIndex(fields) == {fields[i].tag : i \in DOMAIN fields}

\* ConvertCtyToFieldType for the field kinds of the targets: a string field
\* is given a string, an integer field a number
ConvertToField(ctyVal, kind) ==
  IF kind = "string" /\ ctyVal.t = "string" THEN Native(GoString(ctyVal.s))
  ELSE ConvertCtyToFieldType(ctyVal, kind)

NoBlockData == [k \in {} |-> <<>>]
NoParse == [LabelExprs |-> NoData, ExistingAttrs |-> {}, SimpleFieldsValue |-> NoEntries,
            BlockData |-> NoBlockData]

\* categorizeHCLBody: the attributes and blocks sorted by the kind of field
\* they belong to, and the simple fields converted from the node's data.
\* The targets have no dynamic field and the documents give no attribute
\* the name of a block field, so those two branches are not taken.
categorizeHCLBody(data, hclBody, nullAttrs, blockFields, newFields, newLabels) ==
  LET blockTags == buildTagIndex(blockFields)
      labelTags == buildTagIndex(newLabels)
      live == DOMAIN hclBody.attrs \ nullAttrs
      loaded == {i \in DOMAIN newFields : newFields[i].tag \in DOMAIN data}
      converted == [i \in loaded |-> ConvertToField(data[newFields[i].tag], newFields[i].kind)]
      types == {hclBody.blocks[i].type : i \in DOMAIN hclBody.blocks} \cap blockTags
  IN IF \E i \in loaded : converted[i].err
       THEN [err |-> TRUE, result |-> NoParse]
       ELSE [err |-> FALSE,
             result |->
               [LabelExprs |-> [k \in live \cap labelTags |-> hclBody.attrs[k].val],
                ExistingAttrs |-> (live \ labelTags) \ blockTags,
                SimpleFieldsValue |->
                  [n \in {newFields[i].Name : i \in DOMAIN newFields} |->
                     LET i == CHOOSE j \in DOMAIN newFields : newFields[j].Name = n
                     IN IF i \in loaded THEN converted[i].v ELSE ZeroOf(newFields[i].kind)],
                BlockData |-> [t \in types |->
                                 SelectSeq(hclBody.blocks, LAMBDA b : b.type = t)]]]

\* processLabels: the struct after the label fields are set from the label
\* attributes and then, where still empty, from the labels handed down
processLabels(labelFields, obj, labelExprs, labels) ==
  LET fromAttrs ==
        [obj EXCEPT !.f = [n \in DOMAIN @ |->
           IF \E i \in DOMAIN labelFields :
                labelFields[i].Name = n /\ labelFields[i].tag \in DOMAIN labelExprs
             THEN GoString(labelExprs[FieldByName(obj.type, n).tag].s)
             ELSE @[n]]]
  IN IF Len(labelFields) > 0 /\ Len(labels) = Len(labelFields)
       THEN [fromAttrs EXCEPT !.f = [n \in DOMAIN @ |->
              IF \E i \in DOMAIN labelFields : labelFields[i].Name = n /\ @[n] = GoString("")
                THEN GoString(labels[CHOOSE i \in DOMAIN labelFields : labelFields[i].Name = n])
                ELSE @[n]]]
       ELSE fromAttrs

\* a processSimpleFields that copies every converted field
processSimpleFieldsAll(newFields, rawValue, obj, existingAttrs) ==
  [obj EXCEPT !.f = [n \in DOMAIN @ |->
     IF \E i \in DOMAIN newFields : newFields[i].Name = n THEN rawValue[n] ELSE @[n]]]

\* processSimpleFields: the struct after the simple fields whose attribute
\* exists are copied from the decoded values
processSimpleFields(newFields, rawValue, obj, existingAttrs) ==
  [obj EXCEPT !.f = [n \in DOMAIN @ |->
     IF \E i \in DOMAIN newFields : newFields[i].Name = n /\ newFields[i].tag \in existingAttrs
       THEN rawValue[n]
       ELSE @[n]]]

(***************************************************************************)
(* The decode in progress.  A frame is one activation of                   *)
(* UnmarshalSpecTree; pc is the statement it is at.                         *)
(***************************************************************************)
Frame(at, addr, doc, labels, node, om) ==
  [pc |-> at, addr |-> addr, doc |-> doc, labels |-> labels, node |-> node, om |-> om,
   nullAttrs |-> {}, cats |-> NoCategories(NoFields, NoRegistry), parsed |-> NoParse,
   updated |-> NilAddr, bf |-> 1, err |-> FALSE]

OwnMap(m) == [own |-> TRUE, m |-> m]
SpecMap == [own |-> FALSE, m |-> NoFields]

Depth == Len(frames)
Top == frames[Depth]
At(at) == Depth > 0 /\ Top.pc = at

\* the frame on top replaced
SetTop(fr) == [frames EXCEPT ![Depth] = fr]
\* the frame on top at return
Returning(fr, err) == [fr EXCEPT !.pc = "return", !.err = err]
Goto(at) == frames' = SetTop([Top EXCEPT !.pc = at])

\* the field map objectMap refers to: the specification's own, or a new one
ObjectMap(fr) == IF fr.om.own THEN fr.om.m ELSE spec.Fields

CallIdle == [stage |-> "idle", err |-> FALSE, ref0 |-> NilRef, spec0 |-> NilSpec,
             target0 |-> GoNil, doc |-> EmptyBody, labels |-> <<>>, again |-> FALSE]

FreshScope == [p \in {Root} |-> NoData]

DecodeStart ==
  /\ heap = <<>>
  /\ ref = NilRef
  /\ work = OwnMap(NoRegistry)
  /\ spec = NilSpec
  /\ frames = <<>>
  /\ scope = FreshScope
  /\ call = CallIdle

(***************************************************************************)
(* What callers hand to UnmarshalSpec                                       *)
(***************************************************************************)
\* the functions from a subset of keys, each key with one of its values
AttrsOver(values) ==
  UNION {[K -> UNION {values[k] : k \in DOMAIN values}] : K \in SUBSET DOMAIN values}

AttrsWith(values) == {a \in AttrsOver(values) : \A k \in DOMAIN a : a[k] \in values[k]}

InnerAttrs ==
  AttrsWith([type |-> {Lit(CtyString("t"))},
             port |-> {Lit(CtyInt(7)), Lit(CtyInt(300))}])

InnerDocs == {Body(a, <<>>) : a \in InnerAttrs}

SvcLabels == {<<>>, <<"l">>, <<"l", "m">>}

SvcBlocks == {Block("svc", labels, body) : labels \in SvcLabels, body \in InnerDocs}

OuterAttrs ==
  AttrsWith([title |-> {Lit(CtyString("x")), Lit(CtyNull), Call("null")},
             count |-> {Lit(CtyInt(7)), Lit(CtyInt(300))}])

OuterDocs ==
  {Body(a, blocks) : a \in OuterAttrs, blocks \in {<<>>} \cup {<<b>> : b \in SvcBlocks}}

MapDocs ==
  {Body(a, <<>>) : a \in AttrsWith([x |-> {Lit(CtyString("a")), Lit(CtyNull), Call("null")},
                                   y |-> {Lit(CtyInt(7))}])}

OuterTargets ==
  {ZeroStruct("Outer"),
   [ZeroStruct("Outer") EXCEPT !.f["Title"] = GoString("old"),
                               !.f["Count"] = GoNum("uint8", NumInt(FALSE, BigOne))]}

InnerTargets ==
  {ZeroStruct("Inner"),
   [ZeroStruct("Inner") EXCEPT !.f["Type"] = GoString("existing")],
   [ZeroStruct("Inner") EXCEPT !.f["Type"] = GoString("existing"),
                               !.f["Name"] = GoString("named")]}

MapTargets == {GoMap(NoEntries), GoMap([k \in {"x"} |-> GoString("old")])}

\* a call: the target, the document and the labels
Calls ==
  {[target |-> t, doc |-> d, labels |-> <<>>] : t \in OuterTargets, d \in OuterDocs}
  \cup {[target |-> t, doc |-> d, labels |-> l] : t \in InnerTargets, d \in InnerDocs,
                                                  l \in SvcLabels}
  \cup {[target |-> t, doc |-> d, labels |-> <<>>] : t \in MapTargets, d \in MapDocs}

\* the second call of a caller that decodes two documents in a row: the
\* second document takes its count from a variable, or gives it outright
AgainDocs ==
  {Body([k \in {"count"} |-> Var("port")], <<>>),
   Body([k \in {"count"} |-> Lit(CtyInt(7))], <<>>)}

AgainCalls == {[target |-> ZeroStruct("Outer"), doc |-> d, labels |-> <<>>] : d \in AgainDocs}

\* the registries a second call may be given, held being the first call's
AgainRefs(held) == {NilRef, RefOf(NoRegistry)} \cup (IF held.isnil THEN {} ELSE {held})

Refs ==
  {NilRef, RefOf(NoRegistry),
   RefOf([k \in {TypeName("Inner")} |-> Proto("Inner", "caller")])}

Specs ==
  {NilSpec, NewStruct("Outer", FALSE, NoFields), NewStruct("Outer", TRUE, NoFields),
   NewStruct("Outer", TRUE, [k \in {"Svc"} |-> NewValue(TypeName("Inner"))]),
   NewStruct("Outer", TRUE, [k \in {"Svc"} |-> NewValue("Missing")])}

(***************************************************************************)
(* UnmarshalSpec and the steps of UnmarshalSpecTree                         *)
(***************************************************************************)
\* the caller builds its inputs and calls UnmarshalSpec, which runs
\* NewTreeCtyFunction and enters UnmarshalSpecTree on the root node
CallUnmarshalSpec ==
  /\ call.stage = "idle"
  /\ \E c \in Calls, callerRef \in Refs, callerSpec \in Specs :
       LET made == NewTreeCtyFunction(callerRef)
       IN /\ heap' = <<c.target>>
          /\ ref' = made.ref
          /\ work' = made.work
          /\ spec' = callerSpec
          /\ scope' = NewTreeCtyFunctionNode(callerRef, scope)
          /\ frames' = <<Frame("dispatch", 1, c.doc, c.labels, Root, SpecMap)>>
          /\ call' = [stage |-> "running", err |-> FALSE, ref0 |-> callerRef,
                      spec0 |-> callerSpec, target0 |-> c.target, doc |-> c.doc,
                      labels |-> c.labels, again |-> FALSE]
  /\ UNCHANGED nonDecVars

\* the caller calls UnmarshalSpec a second time, with a new target and no
\* specification, and with the registry it passed to the first call (the
\* same map, as the first call left it), a new empty one, or none
CallUnmarshalSpecAgain ==
  /\ call.stage = "done"
  /\ ~call.again
  /\ \E c \in AgainCalls, callerRef \in AgainRefs(ref) :
       LET made == NewTreeCtyFunction(callerRef)
       IN /\ heap' = <<c.target>>
          /\ ref' = made.ref
          /\ work' = made.work
          /\ spec' = NilSpec
          /\ scope' = NewTreeCtyFunctionNode(callerRef, scope)
          /\ frames' = <<Frame("dispatch", 1, c.doc, c.labels, Root, SpecMap)>>
          /\ call' = [stage |-> "running", err |-> FALSE, ref0 |-> callerRef,
                      spec0 |-> NilSpec, target0 |-> c.target, doc |-> c.doc,
                      labels |-> c.labels, again |-> TRUE]
  /\ UNCHANGED nonDecVars

\* a map target goes to unmarshalToMap, which decodes with a nil ref and
\* lays the result over the caller's map.  The nodes and items decodeMap
\* adds to the scope tree are read by nothing on this path.
DispatchMap ==
  /\ At("dispatch")
  /\ heap[Top.addr].kind = "map"
  /\ LET obj == decodeMap(FALSE, Top.doc)
     IN IF obj.err
          THEN /\ frames' = SetTop(Returning(Top, TRUE))
               /\ UNCHANGED heap
          ELSE /\ heap' = [heap EXCEPT ![Top.addr] = GoMap(Overlay(@.m, obj.v.m))]
               /\ frames' = SetTop(Returning(Top, FALSE))
  /\ UNCHANGED <<ref, work, spec, scope, call>>
  /\ UNCHANGED nonDecVars

\* a struct target: objectMap is the specification's field map when it has
\* one, a new map otherwise; the document is parsed
DispatchStruct ==
  /\ At("dispatch")
  /\ heap[Top.addr].kind = "struct"
  /\ LET own == Depth > 1 \/ GetFields(spec).isnil
     IN frames' = SetTop([Top EXCEPT !.pc = "evaluate",
                                     !.om = IF own THEN OwnMap(NoFields) ELSE SpecMap])
  /\ UNCHANGED <<heap, ref, work, spec, scope, call>>
  /\ UNCHANGED nonDecVars

EvaluateExpressions ==
  /\ At("evaluate")
  /\ LET r == evaluateExpressions(Registry(ref, work), CtyVariables(scope), scope[Top.node],
                                  Top.doc)
     IN IF r.err
          THEN /\ frames' = SetTop(Returning(Top, TRUE))
               /\ UNCHANGED scope
          ELSE /\ frames' = SetTop([Top EXCEPT !.pc = "blocks", !.nullAttrs = r.kNulls,
                                               !.doc = r.bd])
               /\ scope' = [scope EXCEPT ![Top.node] = r.data]
  /\ UNCHANGED <<heap, ref, work, spec, call>>
  /\ UNCHANGED nonDecVars

AddBlocksToTree ==
  /\ At("blocks")
  /\ scope' = addBlocksToTree(scope, Top.node, Top.doc.blocks)
  /\ Goto("fields")
  /\ UNCHANGED <<heap, ref, work, spec, call>>
  /\ UNCHANGED nonDecVars

\* categorizeStructFields writes the types it finds into the registry and
\* the field map it was given
CategorizeStructFields ==
  /\ At("fields")
  /\ LET c == categorizeStructFields(heap[Top.addr].type, ObjectMap(Top),
                                     Registry(ref, work), Top.nullAttrs)
     IN /\ frames' = SetTop([Top EXCEPT !.pc = "body", !.cats = c,
                                        !.om = IF @.own THEN OwnMap(c.om) ELSE @])
        /\ spec' = IF Top.om.own THEN spec ELSE [spec EXCEPT !.Fields = c.om]
        /\ ref' = IF work.own THEN ref ELSE [ref EXCEPT !.m = c.reg]
        /\ work' = IF work.own THEN [work EXCEPT !.m = c.reg] ELSE work
  /\ UNCHANGED <<heap, scope, call>>
  /\ UNCHANGED nonDecVars

CategorizeHCLBody ==
  /\ At("body")
  /\ LET r == categorizeHCLBody(scope[Top.node], Top.doc, Top.nullAttrs,
                                Top.cats.BlockFields, Top.cats.SimpleFields, Top.cats.Labels)
     IN frames' = SetTop(IF r.err THEN Returning(Top, TRUE)
                         ELSE [Top EXCEPT !.pc = "copy", !.parsed = r.result])
  /\ UNCHANGED <<heap, ref, work, spec, scope, call>>
  /\ UNCHANGED nonDecVars

\* updatedValue := reflect.New(targetValue.Elem().Type()).Elem(), set to
\* targetValue.Elem(): a new pointer variable holding the target's address
CopyTarget ==
  /\ At("copy")
  /\ frames' = SetTop([Top EXCEPT !.pc = "labels", !.updated = Top.addr])
  /\ UNCHANGED <<heap, ref, work, spec, scope, call>>
  /\ UNCHANGED nonDecVars

ProcessLabels ==
  /\ At("labels")
  /\ heap' = [heap EXCEPT ![Top.updated] =
                processLabels(Top.cats.Labels, @, Top.parsed.LabelExprs, Top.labels)]
  /\ Goto("simple")
  /\ UNCHANGED <<ref, work, spec, scope, call>>
  /\ UNCHANGED nonDecVars

ProcessSimpleFields ==
  /\ At("simple")
  /\ heap' = [heap EXCEPT ![Top.updated] =
                processSimpleFields(Top.cats.SimpleFields, Top.parsed.SimpleFieldsValue, @,
                                    Top.parsed.ExistingAttrs)]
  /\ Goto("dynamic")
  /\ UNCHANGED <<ref, work, spec, scope, call>>
  /\ UNCHANGED nonDecVars

\* the targets have no map[string]any or []any field: the loop of
\* processMapOrSliceFields has nothing to go through
ProcessMapOrSliceFields ==
  /\ At("dynamic")
  /\ Goto("blockfields")
  /\ UNCHANGED <<heap, ref, work, spec, scope, call>>
  /\ UNCHANGED nonDecVars

\* processBlockFields at the field it has come to: a field with no block or
\* no specification is passed over; processSingleStructField looks the class
\* up in the registry, clones the prototype and decodes the first block into
\* the clone on the block's node
ProcessBlockFields ==
  /\ At("blockfields")
  /\ Top.bf <= Len(Top.cats.BlockFields)
  /\ LET field == Top.cats.BlockFields[Top.bf]
         blocks == IF field.tag \in DOMAIN Top.parsed.BlockData
                     THEN Top.parsed.BlockData[field.tag] ELSE <<>>
         om == ObjectMap(Top)
         reg == Registry(ref, work)
     IN IF Len(blocks) = 0 \/ field.Name \notin DOMAIN om
          THEN /\ frames' = SetTop([Top EXCEPT !.bf = @ + 1])
               /\ UNCHANGED heap
        ELSE IF om[field.Name].ClassName \notin DOMAIN reg
          THEN /\ frames' = SetTop(Returning(Top, TRUE))
               /\ UNCHANGED heap
        ELSE LET trial == ZeroStruct(reg[om[field.Name].ClassName].type)
                 block == blocks[1]
                 subnode == Top.node \o <<field.tag>> \o block.labels
             IN /\ heap' = Append(heap, trial)
                /\ frames' = Append(SetTop([Top EXCEPT !.pc = "nested"]),
                                    Frame("dispatch", Len(heap) + 1, block.body, block.labels,
                                          subnode, OwnMap(NoFields)))
  /\ UNCHANGED <<ref, work, spec, scope, call>>
  /\ UNCHANGED nonDecVars

\* processSingleStructField after the nested decode: an error is wrapped and
\* returned, otherwise the field is set to the clone
AfterNested ==
  /\ Depth > 1
  /\ Top.pc = "return"
  /\ LET parent == frames[Depth - 1]
         field == parent.cats.BlockFields[parent.bf]
         below == SubSeq(frames, 1, Depth - 2)
     IN IF Top.err
          THEN /\ frames' = Append(below, Returning(parent, TRUE))
               /\ UNCHANGED heap
          ELSE /\ frames' = Append(below, [parent EXCEPT !.pc = "blockfields", !.bf = @ + 1])
               /\ heap' = [heap EXCEPT ![parent.updated].f[field.Name] = GoPtr(Top.addr)]
  /\ UNCHANGED <<ref, work, spec, scope, call>>
  /\ UNCHANGED nonDecVars

\* targetValue.Set(updatedValue): the local variable current is given the
\* pointer it already holds; return nil
Commit ==
  /\ At("blockfields")
  /\ Top.bf > Len(Top.cats.BlockFields)
  /\ frames' = SetTop(Returning(Top, FALSE))
  /\ UNCHANGED <<heap, ref, work, spec, scope, call>>
  /\ UNCHANGED nonDecVars

\* UnmarshalSpec returns to the caller
ReturnToCaller ==
  /\ Depth = 1
  /\ Top.pc = "return"
  /\ frames' = <<>>
  /\ call' = [call EXCEPT !.stage = "done", !.err = Top.err]
  /\ UNCHANGED <<heap, ref, work, spec, scope>>
  /\ UNCHANGED nonDecVars

\* the caller drops what it holds
DecodeReset ==
  /\ call.stage = "done"
  /\ heap' = <<>>
  /\ ref' = NilRef
  /\ work' = OwnMap(NoRegistry)
  /\ spec' = NilSpec
  /\ scope' = FreshScope
  /\ call' = CallIdle
  /\ UNCHANGED frames
  /\ UNCHANGED nonDecVars

NextDecode ==
  \/ CallUnmarshalSpec
  \/ CallUnmarshalSpecAgain
  \/ DispatchMap
  \/ DispatchStruct
  \/ EvaluateExpressions
  \/ AddBlocksToTree
  \/ CategorizeStructFields
  \/ CategorizeHCLBody
  \/ CopyTarget
  \/ ProcessLabels
  \/ ProcessSimpleFields
  \/ ProcessMapOrSliceFields
  \/ ProcessBlockFields
  \/ AfterNested
  \/ Commit
  \/ ReturnToCaller
  \/ DecodeReset

(***************************************************************************)
(* Concurrent top-level calls.  Goroutines call UnmarshalSpec at the same  *)
(* time, each with a document `svc { }` and an Outer of its own, and all   *)
(* with the same registry map and the same specification.  A write of a Go *)
(* map is not atomic: it is modelled by a step that begins it and a step   *)
(* that ends it.                                                           *)
(***************************************************************************)
NumCallers == 2
Callers == 1..NumCallers

\* the tree a caller left in the registry before the calls
CallersTree == 0
Tree(id) == [kind |-> "tree", id |-> id]
NoTree == [kind |-> "nil"]

\* the maps the calls share
RefMap == "ref"
FunctionMap == "ref[FUNCTIONS]"
FieldsMap == "spec.Fields"
NoMap == "none"

GoIdle == [pc |-> "idle", node |-> NoTree, writing |-> NoMap]

ShareStart ==
  /\ sreg = NoRegistry
  /\ sspec = NilSpec
  /\ strees = [id \in {} |-> {}]
  /\ gos = [g \in Callers |-> GoIdle]
  /\ shared = FALSE

\* the registries and specifications a caller hands to all its goroutines
SharedRefs ==
  {NoRegistry,
   [k \in {FUNCTIONS} |-> FuncsEntry],
   [k \in {ATTRIBUTES} |-> Tree(CallersTree)],
   [k \in {ATTRIBUTES, FUNCTIONS, TypeName("Inner")} |->
      IF k = ATTRIBUTES THEN Tree(CallersTree)
      ELSE IF k = FUNCTIONS THEN FuncsEntry ELSE Proto("Inner", "caller")]}

SharedSpecs ==
  {NewStruct("Outer", TRUE, NoFields),
   NewStruct("Outer", TRUE, [k \in {"Svc"} |-> NewValue(TypeName("Inner"))])}

\* the caller builds the registry and the specification
ShareSetup ==
  /\ ~shared
  /\ \E m \in SharedRefs, s \in SharedSpecs :
       /\ sreg' = m
       /\ sspec' = s
       /\ strees' = [id \in {t \in {CallersTree} : ATTRIBUTES \in DOMAIN m} |-> {}]
  /\ shared' = TRUE
  /\ UNCHANGED gos
  /\ UNCHANGED nonShareVars

GoAt(g, at) == shared /\ gos[g].pc = at
GoTo(g, at) == gos' = [gos EXCEPT ![g].pc = at]

\* a goroutine uses a tree: it reads its items or stores one
Touch(trees, id, g) == [trees EXCEPT ![id] = @ \cup {g}]

\* go UnmarshalSpec(hclData, &outer, spec, ref)
GoUnmarshalSpec(g) ==
  /\ GoAt(g, "idle")
  /\ GoTo(g, "tree")
  /\ UNCHANGED <<sreg, sspec, strees, shared>>
  /\ UNCHANGED nonShareVars

\* NewTreeCtyFunction: inode, ok := ref[ATTRIBUTES]; the tree found is the
\* node, otherwise node = NewTree(VAR) and the write of ref[ATTRIBUTES] begins
GoTreeLookup(g) ==
  /\ GoAt(g, "tree")
  /\ IF ATTRIBUTES \in DOMAIN sreg
       THEN /\ gos' = [gos EXCEPT ![g].pc = "funcs", ![g].node = sreg[ATTRIBUTES]]
            /\ UNCHANGED strees
       ELSE /\ gos' = [gos EXCEPT ![g].pc = "tree_store", ![g].node = Tree(g),
                                  ![g].writing = RefMap]
            /\ strees' = [id \in DOMAIN strees \cup {g} |->
                            IF id \in DOMAIN strees THEN strees[id] ELSE {}]
  /\ UNCHANGED <<sreg, sspec, shared>>
  /\ UNCHANGED nonShareVars

\* ref[ATTRIBUTES] = node
GoTreeStore(g) ==
  /\ GoAt(g, "tree_store")
  /\ sreg' = Put(sreg, ATTRIBUTES, gos[g].node)
  /\ gos' = [gos EXCEPT ![g].pc = "funcs", ![g].writing = NoMap]
  /\ UNCHANGED <<sspec, strees, shared>>
  /\ UNCHANGED nonShareVars

\* if ref[FUNCTIONS] == nil the write of ref[FUNCTIONS] begins, otherwise
\* the writes t[k] = v into the function table the registry holds
GoFuncsLookup(g) ==
  /\ GoAt(g, "funcs")
  /\ gos' = [gos EXCEPT ![g].pc = "funcs_store",
                        ![g].writing = IF FUNCTIONS \in DOMAIN sreg THEN FunctionMap
                                       ELSE RefMap]
  /\ UNCHANGED <<sreg, sspec, strees, shared>>
  /\ UNCHANGED nonShareVars

\* ref[FUNCTIONS] = defaultFuncs, or the end of the loop over defaultFuncs
GoFuncsStore(g) ==
  /\ GoAt(g, "funcs_store")
  /\ sreg' = Put(sreg, FUNCTIONS, FuncsEntry)
  /\ gos' = [gos EXCEPT ![g].pc = "evaluate", ![g].writing = NoMap]
  /\ UNCHANGED <<sspec, strees, shared>>
  /\ UNCHANGED nonShareVars

\* evaluateExpressions and addBlocksToTree: ExpressionToCty reads the items
\* of the tree in ref[ATTRIBUTES], the values and the block nodes are stored
\* in the call's node
GoEvaluate(g) ==
  /\ GoAt(g, "evaluate")
  /\ strees' = Touch(Touch(strees, sreg[ATTRIBUTES].id, g), gos[g].node.id, g)
  /\ GoTo(g, "fields")
  /\ UNCHANGED <<sreg, sspec, shared>>
  /\ UNCHANGED nonShareVars

\* categorizeStructFields at the field Svc: a field the specification names
\* is a block field; otherwise the write ref[typeName] = reflect.New(...)
\* begins
GoCategorize(g) ==
  /\ GoAt(g, "fields")
  /\ IF "Svc" \in DOMAIN sspec.Fields
       THEN GoTo(g, "blockfields")
       ELSE gos' = [gos EXCEPT ![g].pc = "proto_store", ![g].writing = RefMap]
  /\ UNCHANGED <<sreg, sspec, strees, shared>>
  /\ UNCHANGED nonShareVars

\* ref[typeName] = reflect.New(fieldType).Interface(); the write
\* objectMap[field.Name] = valueSpec begins
GoProtoStore(g) ==
  /\ GoAt(g, "proto_store")
  /\ sreg' = Put(sreg, TypeName("Inner"), Proto("Inner", "decode"))
  /\ gos' = [gos EXCEPT ![g].pc = "field_store", ![g].writing = FieldsMap]
  /\ UNCHANGED <<sspec, strees, shared>>
  /\ UNCHANGED nonShareVars

\* objectMap[field.Name] = valueSpec; objectMap is spec.GetFields()
GoFieldStore(g) ==
  /\ GoAt(g, "field_store")
  /\ sspec' = [sspec EXCEPT !.Fields = Put(@, "Svc", NewValue(TypeName("Inner")))]
  /\ gos' = [gos EXCEPT ![g].pc = "blockfields", ![g].writing = NoMap]
  /\ UNCHANGED <<sreg, strees, shared>>
  /\ UNCHANGED nonShareVars

\* processBlockFields: the block is decoded on its node of the call's tree;
\* UnmarshalSpec returns
GoBlockFields(g) ==
  /\ GoAt(g, "blockfields")
  /\ strees' = Touch(strees, gos[g].node.id, g)
  /\ GoTo(g, "done")
  /\ UNCHANGED <<sreg, sspec, shared>>
  /\ UNCHANGED nonShareVars

\* all calls have returned; the caller drops the registry
ShareReset ==
  /\ shared
  /\ \A g \in Callers : gos[g].pc = "done"
  /\ sreg' = NoRegistry
  /\ sspec' = NilSpec
  /\ strees' = [id \in {} |-> {}]
  /\ gos' = [g \in Callers |-> GoIdle]
  /\ shared' = FALSE
  /\ UNCHANGED nonShareVars

NextShare ==
  \/ ShareSetup
  \/ \E g \in Callers :
       \/ GoUnmarshalSpec(g)
       \/ GoTreeLookup(g)
       \/ GoTreeStore(g)
       \/ GoFuncsLookup(g)
       \/ GoFuncsStore(g)
       \/ GoEvaluate(g)
       \/ GoCategorize(g)
       \/ GoProtoStore(g)
       \/ GoFieldStore(g)
       \/ GoBlockFields(g)
  \/ ShareReset

\* utils.Value of the other kinds: ListStruct, MapStruct, Map2Struct
\* a map[string]string{} of class names
NoClassNames == [k \in {} |-> ""]
NewListValue(classNames) == [ListFields |-> [i \in DOMAIN classNames |-> NewValue(classNames[i])]]
NewMapValue(classNames) == [MapFields |-> [k \in DOMAIN classNames |-> NewValue(classNames[k])]]
NewMap2Value(classNames) ==
  [Map2Fields |-> [k \in DOMAIN classNames |-> NewMapValue(classNames[k])]]

\* result.GetMap2Struct() != nil, and so on
IsMap2Struct(value) == "Map2Fields" \in DOMAIN value
IsMapStruct(value) == "MapFields" \in DOMAIN value
IsListStruct(value) == "ListFields" \in DOMAIN value

\* trial := ref[className] that finds a prototype under every name
trialOfAny(reg, className) ==
  [found |-> TRUE,
   type |-> IF className \in DOMAIN reg /\ reg[className].kind = "proto"
              THEN reg[className].type ELSE "Inner"]
\* trial := ref[className]; trial == nil when the registry has no such class
trialOf(reg, className) ==
  IF className \in DOMAIN reg /\ reg[className].kind = "proto"
    THEN [found |-> TRUE, type |-> reg[className].type]
    ELSE [found |-> FALSE, type |-> ""]

\* tryUnmarshalWithCustom(subnode, s, trial, nextStruct, ref, lbls...):
\* UnmarshalSpecTree into a struct that has labels and simple fields only.
\* The blocks of the documents all decode into the same class, so what an
\* earlier block left in a node they share converts as it did before and is
\* copied only if the block gives the attribute itself.
tryUnmarshalWithCustom(reg, hclBody, trial, labels) ==
  LET filled(c, p) ==
        IF p.err THEN [err |-> TRUE, v |-> trial]
        ELSE [err |-> FALSE,
              v |-> processSimpleFields(c.SimpleFields, p.result.SimpleFieldsValue,
                      processLabels(c.Labels, trial, p.result.LabelExprs, labels),
                      p.result.ExistingAttrs)]
      categorized(r, c) ==
        filled(c, categorizeHCLBody(r.data, r.bd, r.kNulls, c.BlockFields, c.SimpleFields,
                                    c.Labels))
      evaluated(r) ==
        IF r.err THEN [err |-> TRUE, v |-> trial]
        ELSE categorized(r, categorizeStructFields(trial.type, NoFields, reg, r.kNulls))
  IN evaluated(evaluateExpressions(reg, NoVariables, NoData, hclBody))

\* getLabels: the values of the first two label fields
getLabels(current) ==
  LET labelFields == SelectSeq(StructFields(current.type),
                               LAMBDA fd : fd.modifier = TagModifierLabel)
      val(i) == IF i <= Len(labelFields) THEN current.f[labelFields[i].Name].s ELSE ""
  IN <<val(1), val(2)>>

\* a nil *utils.Struct: what the range loop over an empty map leaves in first
NilStruct == [isnil |-> TRUE]
\* a nil *utils.MapStruct; its GetMapFields() is the nil map
NilMapStruct == [MapFields |-> NoFields]

\* what a block field's function gives back: the error, the heap with the
\* clones it made, the value it set the field to, the classes it looked up;
\* or a run-time panic
FieldFailed(hp, old, sel) == [err |-> TRUE, panic |-> FALSE, hp |-> hp, f |-> old, sel |-> sel]
FieldSet(hp, f, sel) == [err |-> FALSE, panic |-> FALSE, hp |-> hp, f |-> f, sel |-> sel]
FieldPanicked(hp, old, sel) ==
  [err |-> FALSE, panic |-> TRUE, hp |-> hp, f |-> old, sel |-> sel]

\* no block of the field indexes labels it does not have
NoPanics == [before |-> {}, after |-> {}]

\* the loop the map and list functions share, for block k: the label is
\* indexed (panics.before holds the blocks where that is out of range), the
\* class name is read from the entry selected (a nil entry is a nil
\* dereference), the prototype is looked up, the labels are counted (tooMany
\* holds the blocks refused for their labels), the clone is decoded from the
\* block, and the key is indexed (panics.after)
RECURSIVE decodeEach(_, _, _, _, _, _, _)
decodeEach(reg, structs, blocks, tooMany, panics, hp, k) ==
  IF k > Len(blocks)
    THEN [err |-> FALSE, panic |-> FALSE, hp |-> hp, ptrs |-> <<>>, sel |-> <<>>]
  ELSE IF k \in panics.before \/ structs[k] = NilStruct
    THEN [err |-> FALSE, panic |-> TRUE, hp |-> hp, ptrs |-> <<>>, sel |-> <<>>]
  ELSE LET className == structs[k].ClassName
           failed == [err |-> TRUE, panic |-> FALSE, hp |-> hp, ptrs |-> <<>>,
                      sel |-> <<className>>]
           panicked == [err |-> FALSE, panic |-> TRUE, hp |-> hp, ptrs |-> <<>>,
                        sel |-> <<className>>]
           rest(r) == [r EXCEPT !.ptrs = <<GoPtr(Len(hp) + 1)>> \o @,
                                !.sel = <<className>> \o @]
           decoded(r) ==
             IF r.err THEN failed
             ELSE IF k \in panics.after THEN panicked
             ELSE rest(decodeEach(reg, structs, blocks, tooMany, panics, Append(hp, r.v),
                                  k + 1))
           found(t) ==
             IF ~t.found \/ k \in tooMany THEN failed
             ELSE decoded(tryUnmarshalWithCustom(reg, blocks[k].body, ZeroStruct(t.type),
                                                 blocks[k].labels))
       IN found(trialOf(reg, className))

\* the last index of a sequence of keys that holds the key
LastWith(keys, key) ==
  CHOOSE i \in DOMAIN keys : keys[i] = key /\ \A j \in DOMAIN keys : keys[j] = key => j <= i

\* the map that has, for every key of the sequence, the pointer of the last
\* block with the key: what SetMapIndex in the order of the blocks leaves
MapOf(keys, r) == GoMap([key \in {keys[k] : k \in DOMAIN keys} |-> r.ptrs[LastWith(keys, key)]])

\* the blocks without a label
Unlabelled(blocks) == {k \in DOMAIN blocks : Len(blocks[k].labels) = 0}

\* block.Labels[0], where the block has a label
FirstLabels(blocks) ==
  [k \in DOMAIN blocks |-> IF Len(blocks[k].labels) > 0 THEN blocks[k].labels[1] ELSE ""]

\* what a block field's function returns after the loop
FieldDone(hp, old, r, f) ==
  IF r.panic THEN FieldPanicked(hp, old, r.sel)
  ELSE IF r.err THEN FieldFailed(hp, old, r.sel)
  ELSE FieldSet(r.hp, f, r.sel)

\* processMap2StructField; firstStruct and firstFirst are what the two range
\* loops happen to come to first
processMap2StructField(reg, hp, old, blocks, mapSpec, firstStruct, firstFirst) ==
  LET nextMap2Structs == mapSpec.Map2Fields
      keystring0(k) == IF Len(blocks[k].labels) > 0 THEN blocks[k].labels[1] ELSE ""
      keystring1(k) == IF Len(blocks[k].labels) > 1 THEN blocks[k].labels[2] ELSE ""
      nextMapStruct(k) == IF keystring0(k) \in DOMAIN nextMap2Structs
                            THEN nextMap2Structs[keystring0(k)] ELSE firstStruct
      nextStruct(k) == IF keystring1(k) \in DOMAIN nextMapStruct(k).MapFields
                         THEN nextMapStruct(k).MapFields[keystring1(k)] ELSE firstFirst
      strKey(k, keys) ==
        IF keystring0(k) = "" THEN keys
        ELSE IF keystring1(k) = ""
          THEN <<keystring0(k),
                 IF keys[2] # "" THEN keys[2] ELSE IF keys[1] # "" THEN keys[1] ELSE "">>
        ELSE <<keystring0(k), keystring1(k)>>
      done(r) ==
        FieldDone(hp, old, r,
                  IF r.err \/ r.panic THEN old
                  ELSE MapOf([k \in DOMAIN blocks |->
                                strKey(k, getLabels(r.hp[r.ptrs[k].addr]))], r))
  IN done(decodeEach(reg, [k \in DOMAIN blocks |-> nextStruct(k)], blocks,
                     {k \in DOMAIN blocks : Len(blocks[k].labels) > 2}, NoPanics, hp, 1))

\* processMapStructField that adds to the map the field holds
processMapStructFieldAdding(reg, hp, old, blocks, mapSpec, firstStruct) ==
  LET nextMapStructs == mapSpec.MapFields
      keystrings == FirstLabels(blocks)
      nextStruct(k) == IF keystrings[k] \in DOMAIN nextMapStructs
                         THEN nextMapStructs[keystrings[k]] ELSE firstStruct
      done(r) ==
        FieldDone(hp, old, r,
                  IF r.err \/ r.panic THEN old
                  ELSE GoMap(Overlay(IF old.kind = "map" THEN old.m ELSE NoEntries,
                                     MapOf(keystrings, r).m)))
  IN done(decodeEach(reg, [k \in DOMAIN blocks |-> nextStruct(k)], blocks,
                     {k \in DOMAIN blocks : Len(blocks[k].labels) > 1},
                     [before |-> Unlabelled(blocks), after |-> {}], hp, 1))
\* processMapStructField
processMapStructField(reg, hp, old, blocks, mapSpec, firstStruct) ==
  LET nextMapStructs == mapSpec.MapFields
      keystrings == FirstLabels(blocks)
      nextStruct(k) == IF keystrings[k] \in DOMAIN nextMapStructs
                         THEN nextMapStructs[keystrings[k]] ELSE firstStruct
      done(r) ==
        FieldDone(hp, old, r, IF r.err \/ r.panic THEN old ELSE MapOf(keystrings, r))
  IN done(decodeEach(reg, [k \in DOMAIN blocks |-> nextStruct(k)], blocks,
                     {k \in DOMAIN blocks : Len(blocks[k].labels) > 1},
                     [before |-> Unlabelled(blocks), after |-> {}], hp, 1))

\* processListStructField that takes entry k for block k whatever the kind
\* of the field
processListStructFieldByIndex(reg, hp, old, blocks, listSpec, kind) ==
  LET nextListStructs == listSpec.ListFields
      nSmaller == Len(nextListStructs)
      nextStruct(k) == IF k <= nSmaller THEN nextListStructs[k] ELSE nextListStructs[1]
      done(r) ==
        FieldDone(hp, old, r,
                  IF r.err \/ r.panic THEN old
                  ELSE IF kind = "map" THEN MapOf(FirstLabels(blocks), r)
                  ELSE GoSlice(r.ptrs))
  IN IF nSmaller = 0 THEN FieldPanicked(hp, old, <<>>)
     ELSE done(decodeEach(reg, [k \in DOMAIN blocks |-> nextStruct(k)], blocks, {},
                          [before |-> {},
                           after |-> IF kind = "map" THEN Unlabelled(blocks) ELSE {}],
                          hp, 1))
\* processListStructField for a field of kind slice or map;
\* first := nextListStructs[0] is out of range when the list has no entry
processListStructField(reg, hp, old, blocks, listSpec, kind) ==
  LET nextListStructs == listSpec.ListFields
      nSmaller == Len(nextListStructs)
      nextStruct(k) == IF k <= nSmaller /\ kind = "slice"
                         THEN nextListStructs[k] ELSE nextListStructs[1]
      done(r) ==
        FieldDone(hp, old, r,
                  IF r.err \/ r.panic THEN old
                  ELSE IF kind = "map" THEN MapOf(FirstLabels(blocks), r)
                  ELSE GoSlice(r.ptrs))
  IN IF nSmaller = 0 THEN FieldPanicked(hp, old, <<>>)
     ELSE done(decodeEach(reg, [k \in DOMAIN blocks |-> nextStruct(k)], blocks, {},
                          [before |-> {},
                           after |-> IF kind = "map" THEN Unlabelled(blocks) ELSE {}],
                          hp, 1))

\* processSingleStructField on blocks[0]
processSingleStructField(reg, hp, old, block, singleSpec) ==
  LET done(r) == FieldDone(hp, old, r, IF r.err \/ r.panic THEN old ELSE r.ptrs[1])
  IN done(decodeEach(reg, <<singleSpec>>, <<block>>, {}, NoPanics, hp, 1))

\* the turn of the loop of processBlockFields for one field with blocks
processBlockField(reg, hp, old, blocks, result, kind, firstStruct, firstFirst) ==
  IF IsMap2Struct(result)
    THEN processMap2StructField(reg, hp, old, blocks, result, firstStruct, firstFirst)
  ELSE IF IsMapStruct(result) THEN processMapStructField(reg, hp, old, blocks, result, firstStruct)
  ELSE IF IsListStruct(result) THEN processListStructField(reg, hp, old, blocks, result, kind)
  ELSE processSingleStructField(reg, hp, old, blocks[1], result)

(***************************************************************************)
(* UnmarshalSpec into a Zoo, and Unmarshal of the same documents into a    *)
(* generic map.                                                            *)
(***************************************************************************)
MaxZooBlocks == 2

ZooTags == {ZooFields[i].tag : i \in DOMAIN ZooFields}
ZooLabels == {<<>>, <<"l">>, <<"k">>, <<"x">>, <<"l", "m">>, <<"l", "m", "n">>}
ZooBodies == {Body([k \in {"port"} |-> Lit(CtyInt(n))], <<>>) : n \in {7, 8}}
ZooBlocks(tag) == {Block(tag, ls, b) : ls \in ZooLabels, b \in ZooBodies}
ZooDocs ==
  {Body(NoAttrs, bs) :
     bs \in UNION {UNION {[1..n -> ZooBlocks(tag)] : n \in 0..MaxZooBlocks} : tag \in ZooTags}}

\* the caller's registry: with the prototype of Inner under two names, or
\* with none
ZooRefs ==
  {Put(Put(NoRegistry, "dethcl.Inner", Proto("Inner", "caller")),
       "dethcl.Alias", Proto("Inner", "caller")),
   NoRegistry}

\* the caller's specification: every class is Inner; some are a class the
\* registry does not have; the entries differ in the name of the class; the
\* lists and maps have no entry
ZooSpecs ==
  {[One |-> NewValue("dethcl.Inner"),
    List |-> NewListValue(<<"dethcl.Inner">>),
    Map |-> NewMapValue([k \in {"l"} |-> "dethcl.Inner"]),
    Map2 |-> NewMap2Value([k \in {"l"} |-> [j \in {"m"} |-> "dethcl.Inner"]]),
    Dict |-> NewListValue(<<"dethcl.Inner">>)],
   [One |-> NewValue("dethcl.Missing"),
    List |-> NewListValue(<<"dethcl.Inner", "dethcl.Missing">>),
    Map |-> NewMapValue([k \in {"l", "k"} |->
                           IF k = "l" THEN "dethcl.Inner" ELSE "dethcl.Missing"]),
    Map2 |-> NewMap2Value([k \in {"l", "k"} |->
                             [j \in {"m"} |->
                                IF k = "l" THEN "dethcl.Inner" ELSE "dethcl.Missing"]]),
    Dict |-> NewListValue(<<"dethcl.Inner", "dethcl.Missing">>)],
   [One |-> NewValue("dethcl.Alias"),
    List |-> NewListValue(<<"dethcl.Inner", "dethcl.Alias">>),
    Map |-> NewMapValue([k \in {"l", "k"} |->
                           IF k = "l" THEN "dethcl.Alias" ELSE "dethcl.Inner"]),
    Map2 |-> NewMap2Value([k \in {"l", "k"} |->
                             [j \in {"m"} |->
                                IF k = "l" THEN "dethcl.Alias" ELSE "dethcl.Inner"]]),
    Dict |-> NewListValue(<<"dethcl.Inner", "dethcl.Alias">>)],
   [One |-> NewValue("dethcl.Inner"),
    List |-> NewListValue(<<>>),
    Map |-> NewMapValue(NoClassNames),
    Map2 |-> NewMap2Value(NoClassNames),
    Dict |-> NewListValue(<<>>)]}

\* the caller's target with what it points to: a zero Zoo, or one a decode
\* has filled before
OldInner == [ZeroStruct("Inner") EXCEPT !.f.Type = GoString("old"), !.f.Name = GoString("old")]
ZooTargets ==
  {<<ZeroStruct("Zoo")>>,
   <<GoStruct("Zoo", [One |-> GoPtr(2),
                      List |-> GoSlice(<<GoPtr(2)>>),
                      Map |-> GoMap([k \in {"old"} |-> GoPtr(2)]),
                      Map2 |-> GoMap([k \in {<<"old", "old">>} |-> GoPtr(2)]),
                      Dict |-> GoMap([k \in {"old"} |-> GoPtr(2)])]),
     OldInner>>}

\* what the range loops over the specification's maps can come to first;
\* over a map with no entry the loop variable stays nil
Firsts(result) ==
  IF IsMap2Struct(result)
    THEN IF DOMAIN result.Map2Fields = {} THEN {<<NilMapStruct, NilStruct>>}
         ELSE UNION {{<<result.Map2Fields[a], result.Map2Fields[a].MapFields[b]>> :
                        b \in DOMAIN result.Map2Fields[a].MapFields} :
                     a \in DOMAIN result.Map2Fields}
  ELSE IF IsMapStruct(result)
    THEN IF DOMAIN result.MapFields = {} THEN {<<NilStruct, NilStruct>>}
         ELSE {<<result.MapFields[a], result.MapFields[a]>> : a \in DOMAIN result.MapFields}
  ELSE {<<NilStruct, NilStruct>>}

ZooIdle ==
  [stage |-> "idle", path |-> "none", doc |-> EmptyBody, reg |-> NoRegistry, om |-> NoFields,
   target0 |-> <<>>, cats |-> NoCategories(NoFields, NoRegistry), parsed |-> NoParse,
   bf |-> 1, at |-> "", sel |-> <<>>, err |-> FALSE, generic |-> GoNil]

ShapeStart ==
  /\ zoo = ZooIdle
  /\ zheap = <<>>

\* dethcl.UnmarshalSpec(dat, &zoo, spec, ref) up to the categorising
ZooUnmarshalSpec ==
  /\ zoo.stage = "idle"
  /\ \E doc \in ZooDocs, m \in ZooRefs, om \in ZooSpecs, target \in ZooTargets :
       /\ zoo' = [ZooIdle EXCEPT !.stage = "categorize", !.path = "struct", !.doc = doc,
                                 !.reg = NewTreeCtyFunction(RefOf(m)).ref.m,
                                 !.om = om, !.target0 = target]
       /\ zheap' = target
  /\ UNCHANGED nonShapeVars

\* categorizeStructFields and categorizeHCLBody; the documents have blocks
\* only, so evaluateExpressions has nothing to evaluate
ZooCategorize ==
  /\ zoo.stage = "categorize"
  /\ LET c == categorizeStructFields("Zoo", zoo.om, zoo.reg, {})
         p == categorizeHCLBody(NoData, zoo.doc, {}, c.BlockFields, c.SimpleFields, c.Labels)
     IN zoo' = [zoo EXCEPT !.stage = "blocks", !.cats = c, !.parsed = p.result]
  /\ UNCHANGED <<zheap, nonShapeVars>>

ZooField == zoo.cats.BlockFields[zoo.bf]
ZooFieldBlocks == zoo.parsed.BlockData[ZooField.tag]
ZooAtField == zoo.stage = "blocks" /\ zoo.bf <= Len(zoo.cats.BlockFields)

\* processBlockFields: a field no block of the document is for
ZooSkipField ==
  /\ ZooAtField
  /\ ZooField.tag \notin DOMAIN zoo.parsed.BlockData
  /\ zoo' = [zoo EXCEPT !.bf = @ + 1]
  /\ UNCHANGED <<zheap, nonShapeVars>>

\* what processBlockFields does for the field it has come to, for every
\* way the range loops can go
ZooFieldResults ==
  {processBlockField(zoo.reg, zheap, zheap[1].f[ZooField.Name], ZooFieldBlocks,
                     zoo.om[ZooField.Name], ZooField.kind, fs[1], fs[2]) :
     fs \in Firsts(zoo.om[ZooField.Name])}

\* processBlockFields: the blocks of one field decoded and the field set
ZooBlockField ==
  /\ ZooAtField
  /\ ZooField.tag \in DOMAIN zoo.parsed.BlockData
  /\ \E r \in ZooFieldResults :
       /\ ~r.panic
       /\ zheap' = IF r.err THEN zheap ELSE [r.hp EXCEPT ![1].f[ZooField.Name] = r.f]
       /\ zoo' = [zoo EXCEPT !.stage = IF r.err THEN "done" ELSE @,
                             !.bf = IF r.err THEN @ ELSE @ + 1,
                             !.at = ZooField.Name, !.sel = r.sel, !.err = r.err]
  /\ UNCHANGED nonShapeVars

\* the field's function indexes the labels of a block that has none, the
\* entries of a list that has none, or reads the class of a nil entry: the
\* call does not return
ZooPanic ==
  /\ ZooAtField
  /\ ZooField.tag \in DOMAIN zoo.parsed.BlockData
  /\ \E r \in ZooFieldResults :
       /\ r.panic
       /\ zoo' = [zoo EXCEPT !.stage = "panic", !.at = ZooField.Name, !.sel = r.sel]
  /\ UNCHANGED <<zheap, nonShapeVars>>

\* UnmarshalSpec returns nil
ZooReturn ==
  /\ zoo.stage = "blocks"
  /\ zoo.bf > Len(zoo.cats.BlockFields)
  /\ zoo' = [zoo EXCEPT !.stage = "done"]
  /\ UNCHANGED <<zheap, nonShapeVars>>

\* dethcl.Unmarshal(dat, &m) with m a map[string]any
ZooUnmarshalMap ==
  /\ zoo.stage = "idle"
  /\ \E doc \in ZooDocs :
       LET r == UnmarshalMap(doc)
       IN zoo' = [ZooIdle EXCEPT !.stage = "done", !.path = "generic", !.doc = doc,
                                 !.err = r.err, !.generic = r.v]
  /\ UNCHANGED <<zheap, nonShapeVars>>

ZooReset ==
  /\ zoo.stage \in {"done", "panic"}
  /\ zoo' = ZooIdle
  /\ zheap' = <<>>
  /\ UNCHANGED nonShapeVars

NextShapes ==
  \/ ZooUnmarshalSpec
  \/ ZooCategorize
  \/ ZooSkipField
  \/ ZooBlockField
  \/ ZooPanic
  \/ ZooReturn
  \/ ZooUnmarshalMap
  \/ ZooReset

(***************************************************************************)
(* The entry points Unmarshal, UnmarshalSpec and UnmarshalSpecTree and the *)
(* value the caller passes as the target (current interface{}): nil, a     *)
(* struct or a map passed by value, or a pointer to a map.                 *)
(***************************************************************************)
PassedNil == [isnil |-> TRUE, pointer |-> FALSE, v |-> GoNil]
ByValue(v) == [isnil |-> FALSE, pointer |-> FALSE, v |-> v]
ByPointer(v) == [isnil |-> FALSE, pointer |-> TRUE, v |-> v]

EntryArgs ==
  {PassedNil, ByValue(ZeroStruct("Outer"))}
  \cup {ByValue(m) : m \in MapTargets} \cup {ByPointer(m) : m \in MapTargets}

\* what a call gives back: the error, and the caller's registry and the
\* value behind the target as the call leaves them
Returned(err, callerRef, v) == [err |-> err, ref |-> callerRef, v |-> v]

\* unmarshalToMap: the decoded document laid over the caller's map
unmarshalToMap(doc, current) ==
  LET laid(obj) == IF obj.err THEN [err |-> TRUE, v |-> current]
                   ELSE [err |-> FALSE, v |-> GoMap(Overlay(current.m, obj.v.m))]
  IN laid(decodeMap(FALSE, doc))

\* UnmarshalSpecTree for the targets above: reflect.ValueOf(current).Kind()
\* is Invalid for nil and the value's own kind for a value
UnmarshalSpecTree(doc, arg, callerRef) ==
  LET mapped(r) == Returned(r.err, callerRef, r.v)
  IN IF arg.isnil \/ ~arg.pointer THEN Returned(TRUE, callerRef, arg.v)
     ELSE mapped(unmarshalToMap(doc, arg.v))

\* UnmarshalSpec: NewTreeCtyFunction(ref), then UnmarshalSpecTree
UnmarshalSpec(doc, arg, callerRef) ==
  UnmarshalSpecTree(doc, arg, NewTreeCtyFunction(callerRef).ref)

\* Unmarshal
Unmarshal(doc, arg) ==
  IF arg.isnil THEN Returned(FALSE, NilRef, arg.v)
  ELSE IF ~arg.pointer THEN Returned(TRUE, NilRef, arg.v)
  ELSE UnmarshalSpec(doc, arg, NilRef)

EntryIdle ==
  [stage |-> "idle", fn |-> "", doc |-> EmptyBody, arg |-> PassedNil, ref0 |-> NilRef,
   out |-> Returned(FALSE, NilRef, GoNil)]

EntryStart == entry = EntryIdle

Entered(fn, doc, arg, callerRef, out) ==
  [stage |-> "done", fn |-> fn, doc |-> doc, arg |-> arg, ref0 |-> callerRef, out |-> out]

CallUnmarshal ==
  /\ entry.stage = "idle"
  /\ \E doc \in MapDocs, arg \in EntryArgs :
       entry' = Entered("Unmarshal", doc, arg, NilRef, Unmarshal(doc, arg))
  /\ UNCHANGED nonEntryVars

CallUnmarshalSpecEntry ==
  /\ entry.stage = "idle"
  /\ \E doc \in MapDocs, arg \in EntryArgs, callerRef \in Refs :
       entry' = Entered("UnmarshalSpec", doc, arg, callerRef, UnmarshalSpec(doc, arg, callerRef))
  /\ UNCHANGED nonEntryVars

\* the caller of UnmarshalSpecTree has the node and the registry from
\* NewTreeCtyFunction
CallUnmarshalSpecTree ==
  /\ entry.stage = "idle"
  /\ \E doc \in MapDocs, arg \in EntryArgs, callerRef \in Refs :
       LET made == NewTreeCtyFunction(callerRef).ref
       IN entry' = Entered("UnmarshalSpecTree", doc, arg, made,
                           UnmarshalSpecTree(doc, arg, made))
  /\ UNCHANGED nonEntryVars

EntryReset ==
  /\ entry.stage = "done"
  /\ entry' = EntryIdle
  /\ UNCHANGED nonEntryVars

NextEntry ==
  \/ CallUnmarshal
  \/ CallUnmarshalSpecEntry
  \/ CallUnmarshalSpecTree
  \/ EntryReset

(***************************************************************************)
(* The hcl tag of a field, read as the code reads it.  A tag is the text   *)
(* between the quotes of hcl:"...", here a sequence of pieces: a name, a   *)
(* comma, a dash, the word label.  The field is a string field the         *)
(* specification does not name.                                            *)
(***************************************************************************)
MaxTagLen == 3

TagPieces == {"n", ",", "-", "label"}
Tags == UNION {[1..n -> TagPieces] : n \in 0..MaxTagLen}

TagIgnore == <<"-">>
TagIgnoreSuffix == <<",", "-">>

\* tag[len(tag)-2:] == suffix, for a tag of two pieces or more
HasSuffix(tag, suffix) ==
  Len(tag) >= Len(suffix) /\ SubSeq(tag, Len(tag) - Len(suffix) + 1, Len(tag)) = suffix

\* parseHCLTag: strings.SplitN(tagStr, ",", 2)
parseHCLTag(tag) ==
  LET commas == {i \in DOMAIN tag : tag[i] = ","}
  IN IF commas = {} THEN <<tag, <<>>>>
     ELSE LET c == CHOOSE i \in commas : \A j \in commas : i <= j
          IN <<SubSeq(tag, 1, c - 1), SubSeq(tag, c + 1, Len(tag))>>

\* the bucket of a field no path classifies
NoBucket == "none"

\* parseFieldInfo and the loop of getStructFields: the encoder's list of
\* fields, or nothing
parseFieldInfo(exported, tag) ==
  LET tagName == parseHCLTag(tag)[1]
  IN IF ~exported THEN NoBucket
     ELSE IF tagName = TagIgnore \/ HasSuffix(tagName, TagIgnoreSuffix) THEN NoBucket
     ELSE "fields"

\* the loop of categorizeStructFields for the field: the tests in the order
\* of the code
categorizeByTag(exported, tag) ==
  LET tagName == parseHCLTag(tag)[1]
      tagModifier == parseHCLTag(tag)[2]
  IN IF ~exported THEN NoBucket
     ELSE IF tagModifier = <<TagModifierLabel>> THEN "Labels"
     ELSE IF tagName = TagIgnore \/ HasSuffix(tagName, TagIgnoreSuffix) THEN NoBucket
     ELSE IF tagName = <<>> THEN NoBucket
     ELSE "SimpleFields"

FldIdle == [stage |-> "idle", onpath |-> "", exported |-> FALSE, tag |-> <<>>, bucket |-> NoBucket]

FldStart == fld = FldIdle

\* Marshal of a struct with the field: getStructFields
FieldEncode ==
  /\ fld.stage = "idle"
  /\ \E exported \in BOOLEAN, tag \in Tags :
       fld' = [stage |-> "done", onpath |-> "encode", exported |-> exported, tag |-> tag,
               bucket |-> parseFieldInfo(exported, tag)]
  /\ UNCHANGED nonFldVars

\* Unmarshal into a struct with the field: categorizeStructFields
FieldDecode ==
  /\ fld.stage = "idle"
  /\ \E exported \in BOOLEAN, tag \in Tags :
       fld' = [stage |-> "done", onpath |-> "decode", exported |-> exported, tag |-> tag,
               bucket |-> categorizeByTag(exported, tag)]
  /\ UNCHANGED nonFldVars

FieldReset ==
  /\ fld.stage = "done"
  /\ fld' = FldIdle
  /\ UNCHANGED nonFldVars

NextFields ==
  \/ FieldEncode
  \/ FieldDecode
  \/ FieldReset

(***************************************************************************)
(* Tree.FindNode on a tree one goroutine has built with AddNode.  The      *)
(* nodes are numbered in the order AddNode made them; node 1 is the root.  *)
(***************************************************************************)
MaxFindNodes == 5
MaxFindNames == 2

FindNames == {"a", "b"}
FindPaths == UNION {[1..n -> FindNames] : n \in 1..MaxFindNames}

FindNodes == 1..Len(ft.Name)

\* AddNode by the only goroutine: the child of that name, made if missing
FindAddNode ==
  /\ fcall.stage = "idle"
  /\ Len(ft.Name) < MaxFindNodes
  /\ \E parent \in FindNodes, name \in FindNames :
       /\ \A i \in DOMAIN ft.Downs[parent] : ft.Name[ft.Downs[parent][i]] # name
       /\ ft' = [Name |-> Append(ft.Name, name),
                 Downs |-> Append([ft.Downs EXCEPT ![parent] = Append(@, Len(ft.Name) + 1)],
                                  <<>>)]
  /\ UNCHANGED <<fcall, nonFindVars>>

\* FindNode and the loop over the copied children, from child i on
RECURSIVE FindNode(_, _, _)
RECURSIVE FindNodeFrom(_, _, _, _)
FindNode(t, node, names) ==
  IF Len(names) = 0 THEN NoNode ELSE FindNodeFrom(t, t.Downs[node], names, 1)
FindNodeFrom(t, downs, names, i) ==
  IF i > Len(downs) THEN NoNode
  ELSE IF t.Name[downs[i]] = names[1]
    THEN IF Len(names) = 1 THEN downs[i] ELSE FindNode(t, downs[i], Tail(names))
  ELSE LET later(down) == IF down # NoNode THEN down ELSE FindNodeFrom(t, downs, names, i + 1)
       IN later(FindNode(t, downs[i], names))

FindIdle == [stage |-> "idle", node |-> 1, names |-> <<>>, ret |-> NoNode]

FindStart ==
  /\ ft = [Name |-> <<VAR>>, Downs |-> << <<>> >>]
  /\ fcall = FindIdle

CallFindNode ==
  /\ fcall.stage = "idle"
  /\ \E node \in FindNodes, names \in FindPaths :
       fcall' = [stage |-> "done", node |-> node, names |-> names,
                 ret |-> FindNode(ft, node, names)]
  /\ UNCHANGED <<ft, nonFindVars>>

FindReturn ==
  /\ fcall.stage = "done"
  /\ fcall' = FindIdle
  /\ UNCHANGED <<ft, nonFindVars>>

NextFind ==
  \/ FindAddNode
  \/ CallFindNode
  \/ FindReturn

(***************************************************************************)
(* FindNode, Variables and CtyVariables run by the goroutines next to the  *)
(* other methods of the tree.  A walk is a stack of activations, one per   *)
(* node the recursion is in; each read-locks its node, copies the children *)
(* and unlocks before it looks at a child.  What Variables collects from   *)
(* Data (a sync.Map) takes no lock and decides no step, and is left out.   *)
(***************************************************************************)
MaxWalks == 1

\* the name sequences FindNode is given: none, one name, a name twice, two
\* names
WalkPaths == {<<>>, <<"a">>, <<"a", "a">>, <<"a", "b">>}

\* an activation: the receiver, the names looked for, the copy of the
\* children and the position of the loop over it
Activation(node, names) == [node |-> node, names |-> names, downs |-> <<>>, i |-> 1]

WalkTop(p) == stack[p][Len(stack[p])]
WalkPop(p) == SubSeq(stack[p], 1, Len(stack[p]) - 1)
SetWalkTop(p, fr) == [stack[p] EXCEPT ![Len(stack[p])] = fr]

CanWalk(p) == pc[p] = "idle" /\ walks < MaxWalks

StartWalk(p, op, node, names, at) ==
  /\ opname' = [opname EXCEPT ![p] = op]
  /\ stack' = [stack EXCEPT ![p] = <<Activation(node, names)>>]
  /\ pc' = [pc EXCEPT ![p] = at]
  /\ walks' = walks + 1
  /\ UNCHANGED <<Name, Up, Downs, mu, self, path, first, ret, calls, deletes>>
  /\ UNCHANGED nonLockVars

\* the walk is over: the method returns v
WalkReturn(p, v) ==
  /\ ret' = [ret EXCEPT ![p] = v]
  /\ stack' = [stack EXCEPT ![p] = <<>>]
  /\ pc' = [pc EXCEPT ![p] = "idle"]

\* tree.FindNode(names); names == nil or empty returns nil at once
StartFindNode(p) ==
  \E n \in Nodes, names \in WalkPaths :
    /\ CanWalk(p)
    /\ StartWalk(p, "FindNode", n, names, "find_enter")

\* if names == nil || len(names) == 0 { return nil }
FindNodeEnter(p) ==
  /\ pc[p] = "find_enter"
  /\ IF Len(WalkTop(p).names) = 0
       THEN WalkReturn(p, NoNode)
       ELSE pc' = [pc EXCEPT ![p] = "find_rlock"] /\ UNCHANGED <<ret, stack>>
  /\ UNCHANGED <<Name, Up, Downs, mu, opname, self, path, first, calls, deletes, walks>>
  /\ UNCHANGED nonLockVars

\* self.mu.RLock()
WalkRLock(p, at, next) ==
  /\ pc[p] = at
  /\ CanRLock(WalkTop(p).node)
  /\ mu' = [mu EXCEPT ![WalkTop(p).node].r = @ \cup {p}]
  /\ pc' = [pc EXCEPT ![p] = next]
  /\ UNCHANGED <<Name, Up, Downs, opname, self, path, first, ret, calls, deletes, stack, walks>>
  /\ UNCHANGED nonLockVars

\* the copy of the children with the read lock kept for the recursion
WalkCopyLocked(p, at, next) ==
  /\ pc[p] = at
  /\ stack' = [stack EXCEPT ![p] = SetWalkTop(p, [WalkTop(p) EXCEPT !.downs = Downs[WalkTop(p).node]])]
  /\ pc' = [pc EXCEPT ![p] = next]
  /\ UNCHANGED <<Name, Up, Downs, mu, opname, self, path, first, ret, calls, deletes, walks>>
  /\ UNCHANGED nonLockVars
\* downs := make(...); copy(downs, self.Downs); self.mu.RUnlock()
WalkCopy(p, at, next) ==
  /\ pc[p] = at
  /\ stack' = [stack EXCEPT ![p] = SetWalkTop(p, [WalkTop(p) EXCEPT !.downs = Downs[WalkTop(p).node]])]
  /\ mu' = [mu EXCEPT ![WalkTop(p).node].r = @ \ {p}]
  /\ pc' = [pc EXCEPT ![p] = next]
  /\ UNCHANGED <<Name, Up, Downs, opname, self, path, first, ret, calls, deletes, walks>>
  /\ UNCHANGED nonLockVars

FindNodeRLock(p) == WalkRLock(p, "find_rlock", "find_copy")
FindNodeCopy(p) == WalkCopy(p, "find_copy", "find_loop")

\* the activations left when one returns v: an activation that asked for v
\* in the else branch returns it too if it is a node, and goes on with its
\* next child if it is nil
RECURSIVE Unwind(_, _)
Unwind(stk, v) ==
  IF Len(stk) = 0 THEN [over |-> TRUE, stack |-> stk, v |-> v]
  ELSE IF v # NoNode THEN Unwind(SubSeq(stk, 1, Len(stk) - 1), v)
  ELSE [over |-> FALSE, stack |-> [stk EXCEPT ![Len(stk)].i = @ + 1], v |-> v]

\* one turn of `for _, item := range downs`, or the return nil after it
FindNodeLoop(p) ==
  /\ pc[p] = "find_loop"
  /\ LET fr == WalkTop(p)
         item == fr.downs[fr.i]
         back(u) == IF u.over THEN WalkReturn(p, u.v)
                    ELSE /\ stack' = [stack EXCEPT ![p] = u.stack]
                         /\ UNCHANGED <<pc, ret>>
     IN IF fr.i > Len(fr.downs) THEN back(Unwind(WalkPop(p), NoNode))
        ELSE IF Name[item] = fr.names[1]
          THEN IF Len(fr.names) = 1 THEN back(Unwind(WalkPop(p), item))
               ELSE /\ stack' = [stack EXCEPT
                                   ![p] = SetWalkTop(p, Activation(item, Tail(fr.names)))]
                    /\ pc' = [pc EXCEPT ![p] = "find_rlock"]
                    /\ UNCHANGED <<ret>>
        ELSE /\ stack' = [stack EXCEPT ![p] = Append(@, Activation(item, fr.names))]
             /\ pc' = [pc EXCEPT ![p] = "find_rlock"]
             /\ UNCHANGED <<ret>>
  /\ UNCHANGED <<Name, Up, Downs, mu, opname, self, path, first, calls, deletes, walks>>
  /\ UNCHANGED nonLockVars

\* tree.Variables()
StartVariables(p) ==
  \E n \in Nodes : CanWalk(p) /\ StartWalk(p, "Variables", n, <<>>, "vars_rlock")

\* utils.CtyVariables(tree)
StartCtyVariables(p) ==
  \E n \in Nodes : CanWalk(p) /\ StartWalk(p, "CtyVariables", n, <<>>, "vars_rlock")

VariablesRLock(p) == WalkRLock(p, "vars_rlock", "vars_copy")
VariablesCopy(p) == WalkCopy(p, "vars_copy", "vars_loop")

\* one turn of `for _, down := range downs`: the recursive call; after the
\* loop Data.Range and the return to the activation above
VariablesLoop(p) ==
  /\ pc[p] = "vars_loop"
  /\ LET fr == WalkTop(p)
     IN IF fr.i <= Len(fr.downs)
          THEN /\ stack' = [stack EXCEPT ![p] = Append(@, Activation(fr.downs[fr.i], <<>>))]
               /\ pc' = [pc EXCEPT ![p] = "vars_rlock"]
               /\ UNCHANGED <<ret>>
          ELSE IF Len(stack[p]) = 1 THEN WalkReturn(p, NoNode)
          ELSE /\ stack' = [stack EXCEPT ![p] = [WalkPop(p) EXCEPT ![Len(stack[p]) - 1].i = @ + 1]]
               /\ UNCHANGED <<pc, ret>>
  /\ UNCHANGED <<Name, Up, Downs, mu, opname, self, path, first, calls, deletes, walks>>
  /\ UNCHANGED nonLockVars

LockStart ==
  /\ stack = [p \in Procs |-> <<>>]
  /\ walks = 0

\* the steps inside a method: what a goroutine that has called does next
Advance(p) ==
  \/ AddNodeLock(p)
  \/ AddNodeFound(p)
  \/ AddNodeAppend(p)
  \/ DeleteNodeLock(p)
  \/ DeleteNodeBody(p)
  \/ GetNodeEnter(p)
  \/ GetNodeRLock(p)
  \/ GetNodeFind(p)
  \/ FindNodeEnter(p)
  \/ FindNodeRLock(p)
  \/ FindNodeCopy(p)
  \/ FindNodeLoop(p)
  \/ VariablesRLock(p)
  \/ VariablesCopy(p)
  \/ VariablesLoop(p)

NextLocks ==
  \E p \in Procs :
    \/ CallAddNode(p)
    \/ CallAddNodes(p)
    \/ CallDeleteNode(p)
    \/ CallGetNode(p)
    \/ StartFindNode(p)
    \/ StartVariables(p)
    \/ StartCtyVariables(p)
    \/ Advance(p)

(***************************************************************************)
(* The two classifications of a struct field by its type and value: the    *)
(* encoder's getFields, and isComplexField with categorizeFields.          *)
(***************************************************************************)
\* reflect kinds of what a field, or the first element of a slice or a map,
\* can be
ScalarKinds == {"string", "bool", "int", "float64"}
ComplexKinds == {"interface", "map", "pointer", "slice", "struct"}

\* values of a field: the field's kind, whether the type is a pointer to it
\* (via), whether that pointer is nil, whether the value is the zero value
\* of its type, its length and the kind of its first element
FieldValue(kind, via, nilptr, zero, len, elem) ==
  [kind |-> kind, via |-> via, nilptr |-> nilptr, zero |-> zero, len |-> len, elem |-> elem]

MaxFieldLen == 1

FieldValues ==
  {FieldValue(k, FALSE, FALSE, z, 0, "") :
     k \in ScalarKinds \cup {"interface", "pointer", "struct"}, z \in BOOLEAN}
    \cup {FieldValue(k, via, FALSE, z, 0, "") :
            k \in {"slice", "map"}, via \in BOOLEAN, z \in BOOLEAN}
    \cup {FieldValue(k, via, FALSE, FALSE, n, e) :
            k \in {"slice", "map"}, via \in BOOLEAN, n \in 1..MaxFieldLen,
            e \in ScalarKinds \cup ComplexKinds}
    \cup {FieldValue(k, TRUE, TRUE, TRUE, 0, "") : k \in {"slice", "map"}}

\* fieldValue.IsZero() of the field as declared: a nil pointer, a nil slice
\* or map, a zero scalar or struct; a pointer that is not nil is not zero
DeclaredIsZero(v) == IF v.via THEN v.nilptr ELSE v.zero

\* getFields for a field that is exported, tagged with a name and not
\* embedded: left out, or kept with needsSpecialMarshaling
getFields(v) ==
  IF v.via /\ v.nilptr THEN "skip"
  ELSE IF v.kind \in {"interface", "pointer", "struct"} THEN "block"
  ELSE IF v.kind \in {"slice", "map"}
    THEN IF v.len = 0 THEN "block"
         ELSE IF v.elem \in ComplexKinds THEN "block"
         ELSE "simple"
  ELSE IF v.zero THEN "skip"
  ELSE "simple"

\* isComplexField(fieldValue, fieldType)
isComplexField(v) ==
  IF v.via /\ v.nilptr THEN FALSE
  ELSE IF v.kind \in {"interface", "pointer", "struct"} THEN TRUE
  ELSE IF v.kind \in {"slice", "map"}
    THEN IF v.len = 0 THEN FALSE ELSE v.elem \in ComplexKinds
  ELSE FALSE

\* categorizeFields for one field: the list it is put on
categorizeFields(isLabel, v) ==
  IF isLabel THEN "label"
  ELSE IF isComplexField(v) THEN "block"
  ELSE IF DeclaredIsZero(v) THEN "skip"
  ELSE "simple"

NoFieldValue == FieldValue("string", FALSE, FALSE, TRUE, 0, "")
ClassifyIdle ==
  [stage |-> "idle", v |-> NoFieldValue, label |-> FALSE, enc |-> "", shared |-> ""]

ClassifyStart == cls = ClassifyIdle

\* the encoder classifies a field of a struct it is given
CallGetFields ==
  /\ cls.stage = "idle"
  /\ \E v \in FieldValues, isLabel \in BOOLEAN :
       /\ isLabel => v.kind = "string" /\ ~v.via
       /\ cls' = [ClassifyIdle EXCEPT !.stage = "encoder", !.v = v, !.label = isLabel,
                                      !.enc = getFields(v)]
  /\ UNCHANGED nonClassifyVars

\* the shared classifier is given the same field
CallCategorizeFields ==
  /\ cls.stage = "encoder"
  /\ cls' = [cls EXCEPT !.stage = "both", !.shared = categorizeFields(cls.label, cls.v)]
  /\ UNCHANGED nonClassifyVars

ClassifyReset ==
  /\ cls.stage = "both"
  /\ cls' = ClassifyIdle
  /\ UNCHANGED nonClassifyVars

NextClassify ==
  \/ CallGetFields
  \/ CallCategorizeFields
  \/ ClassifyReset

(***************************************************************************)
(* Marshal of a struct field that is a map of structs with label fields:   *)
(* handleMap gives each entry's key to marshal as keyname, marshal leaves  *)
(* out the label fields the key already has, and the line of the block is  *)
(* the tag, the key's labels, the struct's labels and the body.            *)
(***************************************************************************)
MaxKeyLen == 2
LabelValues == {"", "a", "b"}

\* map keys: a string, or an array of strings of length 1 or 2
MapKeys ==
  {[k |-> "string", items |-> <<s>>] : s \in LabelValues \ {""}}
    \cup UNION {{[k |-> "array", items |-> items] : items \in [1..n -> LabelValues]} :
                  n \in 1..MaxKeyLen}

\* the entries: an Inner with its two label fields and its port
EntryStructs ==
  {GoStruct("Inner", [Type |-> GoString(t), Name |-> GoString(n), Port |-> GoNum("uint8", p)]) :
     t \in LabelValues, n \in LabelValues,
     p \in {NumZero, NumInt(FALSE, BigFromInt(7))}}

\* handleMap: arr, the labels taken from the key; the zero elements of an
\* array key are left out
keyLabels(key) ==
  IF key.k = "array" THEN SelectSeq(key.items, LAMBDA s : s # "") ELSE key.items

\* marshal: the labels it writes before the body.  getFields leaves a
\* label field with the zero value out; of the others marshal takes those
\* that differ from keyname[0]
marshalLabels(current, keyname) ==
  LET labelFields == SelectSeq(StructFields(current.type),
                               LAMBDA fd : fd.modifier = TagModifierLabel)
      values == [i \in DOMAIN labelFields |-> current.f[labelFields[i].Name].s]
  IN SelectSeq(values, LAMBDA s : s # "" /\ (Len(keyname) = 0 \/ keyname[1] # s))

\* handleMap for one entry: the labels of the line, b1 and then those at the
\* head of b2
handleMap(key, current) == keyLabels(key) \o marshalLabels(current, keyLabels(key))

HeaderIdle ==
  [stage |-> "idle", key |-> [k |-> "string", items |-> <<"a">>],
   v |-> ZeroStruct("Inner"), labels |-> <<>>]

HeaderStart == hdr = HeaderIdle

\* Marshal of a struct comes to an entry of a map field
EncodeEntry ==
  /\ hdr.stage = "idle"
  /\ \E key \in MapKeys, v \in EntryStructs :
       hdr' = [stage |-> "done", key |-> key, v |-> v, labels |-> handleMap(key, v)]
  /\ UNCHANGED nonHeaderVars

HeaderReset ==
  /\ hdr.stage = "done"
  /\ hdr' = HeaderIdle
  /\ UNCHANGED nonHeaderVars

NextHeader ==
  \/ EncodeEntry
  \/ HeaderReset

(***************************************************************************)
(* categorizeHCLBody, the loops that sort the attributes and the blocks of *)
(* a body by the tags of the fields: dynamic fields, labels, block fields, *)
(* and the rest.  An attribute has been evaluated and replaced by          *)
(* CtyToExpression of its value before the body is sorted.                 *)
(***************************************************************************)
PartNames == {"a", "b"}
MaxGroups == 2
MaxPartBlocks == 2

\* an attribute as written: the kind of its value and the number of
\* brace groups {...} with something inside in its text
AttrValue(t, n) == [t |-> t, n |-> n]

AttrValues ==
  {AttrValue("null", 0), AttrValue("scalar", 0)}
    \cup {AttrValue("tuple", n) : n \in 0..MaxGroups}
    \cup {AttrValue("object", n) : n \in 0..1}

PartAttributes == UNION {[K -> AttrValues] : K \in SUBSET PartNames}

PartBlocks == UNION {[1..n -> PartNames] : n \in 0..MaxPartBlocks}

\* the tags of the struct's fields: each name is the tag of a dynamic
\* field, a label, a block field, or of none of them
TagKinds == {"interface", "label", "block", "other"}
PartTags == [PartNames -> TagKinds]

\* ExpressionToCty gives a tuple for [...] and an object for {...}, and
\* CtyToExpression keeps those as a LiteralValueExpr of the value, which
\* CanIterateElements; a string, number or bool is a literal that cannot
IterableLiteral(av) == av.t \in {"tuple", "object"}

\* evaluateExpressions: kNulls
NullAttrsOf(attrs) == {k \in DOMAIN attrs : attrs[k].t = "null"}

\* a block of the result: from the document, or cut from an attribute
DocBlock(type, i) == [Type |-> type, from |-> "block", at |-> i]
CutBlock(type, g) == [Type |-> type, from |-> "attribute", at |-> g]

NoBlocks == [t \in {} |-> <<>>]

NoPartition ==
  [InterfaceAttrs |-> {}, LabelExprs |-> {}, ExistingAttrs |-> {}, bodyAttributes |-> {},
   BlockData |-> NoBlocks, InterfaceBlocks |-> NoBlocks, bodyBlocks |-> <<>>, added |-> {}]

\* the blocks of the document under the tags of one kind, in their order
BlocksByTag(blocks, tags, kind) ==
  LET types == {blocks[i] : i \in DOMAIN blocks} \cap {t \in DOMAIN tags : tags[t] = kind}
      all == [i \in DOMAIN blocks |-> DocBlock(blocks[i], i)]
  IN [t \in types |-> SelectSeq(all, LAMBDA b : b.Type = t)]

\* the two loops of categorizeHCLBody.  An attribute with the tag of a block
\* field must be an iterable literal; a block is made of every brace group
\* of its text, and node.AddNode(attrName) adds a node for it
categorizeBodyElements(attrs, blocks, nullAttrs, tags) ==
  LET live == DOMAIN attrs \ nullAttrs
      asBlock == {k \in live : tags[k] = "block"}
      cut == [k \in {a \in asBlock : attrs[a].n > 0} |->
                [g \in 1..attrs[k].n |-> CutBlock(k, g)]]
      doc == BlocksByTag(blocks, tags, "block")
      all == [i \in DOMAIN blocks |-> DocBlock(blocks[i], i)]
  IN IF \E k \in asBlock : ~IterableLiteral(attrs[k])
       THEN [err |-> TRUE, result |-> NoPartition]
       ELSE [err |-> FALSE,
             result |->
               [InterfaceAttrs |-> {k \in live : tags[k] = "interface"},
                LabelExprs |-> {k \in live : tags[k] = "label"},
                ExistingAttrs |-> {k \in live : tags[k] = "other"},
                bodyAttributes |-> {k \in live : tags[k] = "other"},
                BlockData |-> [t \in DOMAIN cut \cup DOMAIN doc |->
                                 (IF t \in DOMAIN cut THEN cut[t] ELSE <<>>)
                                   \o (IF t \in DOMAIN doc THEN doc[t] ELSE <<>>)],
                InterfaceBlocks |-> BlocksByTag(blocks, tags, "interface"),
                bodyBlocks |-> SelectSeq(all, LAMBDA b : tags[b.Type] \in {"label", "other"}),
                added |-> asBlock]]

PartitionIdle ==
  [stage |-> "idle", attrs |-> [k \in {} |-> AttrValue("null", 0)], blocks |-> <<>>,
   tags |-> [n \in PartNames |-> "other"], err |-> FALSE, result |-> NoPartition]

PartitionStart == prt = PartitionIdle

\* UnmarshalSpecTree comes to categorizeHCLBody with the body it parsed, the
\* null attributes evaluateExpressions found and the fields of the struct
CallCategorizeHCLBody ==
  /\ prt.stage = "idle"
  /\ \E attrs \in PartAttributes, blocks \in PartBlocks, tags \in PartTags :
       LET r == categorizeBodyElements(attrs, blocks, NullAttrsOf(attrs), tags)
       IN prt' = [stage |-> "done", attrs |-> attrs, blocks |-> blocks, tags |-> tags,
                  err |-> r.err, result |-> r.result]
  /\ UNCHANGED nonPartitionVars

PartitionReset ==
  /\ prt.stage = "done"
  /\ prt' = PartitionIdle
  /\ UNCHANGED nonPartitionVars

NextPartition ==
  \/ CallCategorizeHCLBody
  \/ PartitionReset

(***************************************************************************)
(* The blocks of a body registered in the scope tree and looked up again:  *)
(* addBlocksToTree calls AddNodes(block.Type, block.Labels...) for every   *)
(* block, the functions of processBlockFields call                         *)
(* GetNode(tag, block.Labels...) for the blocks of their field.  The tree  *)
(* is a value here: the name, the parent and the children of every node,   *)
(* node 1 being the node the body is decoded on.                           *)
(***************************************************************************)
MaxRegBlocks == 2

RegTypes == {"svc", "l"}
RegLabels == {<<>>, <<"">>, <<"l">>, <<"m">>, <<"l", "m">>, <<"m", "l">>, <<"l", "l">>}

\* hclsyntax.Block: Type and Labels
RegBlock(type, labels) == [Type |-> type, Labels |-> labels]
RegBlocks == {RegBlock(t, ls) : t \in RegTypes, ls \in RegLabels}
RegBodies == UNION {[1..n -> RegBlocks] : n \in 0..MaxRegBlocks}

\* NewTree(name)
NewTree(name) == [Name |-> <<name>>, Up |-> <<NoNode>>, Downs |-> <<<<>>>>]

\* findNodeByName over the children of a node of a tree value
findNodeIn(tree, downs, name) ==
  IF \E i \in 1..Len(downs) : tree.Name[downs[i]] = name
    THEN downs[CHOOSE i \in 1..Len(downs) :
                 /\ tree.Name[downs[i]] = name
                 /\ \A j \in 1..(i-1) : tree.Name[downs[j]] # name]
    ELSE NoNode

\* the tree and the node a call returns
Made(tree, node) == [tree |-> tree, node |-> node]

\* an AddNode that appends a child whether or not the name is there
AddNodeAlways(tree, n, name) ==
  LET child == Len(tree.Name) + 1
  IN Made([Name |-> Append(tree.Name, name),
           Up |-> Append(tree.Up, n),
           Downs |-> Append([tree.Downs EXCEPT ![n] = Append(@, child)], <<>>)],
          child)
\* Tree.AddNode: the child of that name when there is one, a new child at
\* the end of Downs otherwise
AddNode(tree, n, name) ==
  LET found == findNodeIn(tree, tree.Downs[n], name)
      child == Len(tree.Name) + 1
  IN IF found # NoNode THEN Made(tree, found)
     ELSE Made([Name |-> Append(tree.Name, name),
                Up |-> Append(tree.Up, n),
                Downs |-> Append([tree.Downs EXCEPT ![n] = Append(@, child)], <<>>)],
               child)

\* Tree.AddNodes: AddNode(tag), then AddNode of every name below the node
\* the step before returned
RECURSIVE AddNodesFrom(_, _, _)
AddNodesFrom(tree, n, names) ==
  IF names = <<>> THEN Made(tree, n)
  ELSE LET made == AddNode(tree, n, Head(names))
       IN AddNodesFrom(made.tree, made.node, Tail(names))

AddNodes(tree, n, tag, names) == AddNodesFrom(tree, n, <<tag>> \o names)

\* Tree.GetNode: self for the empty tag, otherwise the walk along tag and
\* names, nil as soon as a name is not found
RECURSIVE GetNodeFrom(_, _, _)
GetNodeFrom(tree, n, names) ==
  IF names = <<>> THEN n
  ELSE LET next == findNodeIn(tree, tree.Downs[n], Head(names))
       IN IF next = NoNode THEN NoNode ELSE GetNodeFrom(tree, next, Tail(names))

GetNode(tree, n, tag, names) ==
  IF tag = "" THEN n ELSE GetNodeFrom(tree, n, <<tag>> \o names)

\* addBlocksToTree on a tree value: the loop over the blocks from the k-th on
RECURSIVE registerBlocks(_, _, _, _)
registerBlocks(tree, n, blocks, k) ==
  IF k > Len(blocks) THEN tree
  ELSE registerBlocks(AddNodes(tree, n, blocks[k].Type, blocks[k].Labels).tree, n, blocks, k + 1)

\* the trees a decode starts on: a new one, and trees an earlier decode on
\* the same tree has left nodes in
PriorTrees ==
  {NewTree(VAR),
   registerBlocks(NewTree(VAR), 1, <<RegBlock("svc", <<"l">>)>>, 1),
   registerBlocks(NewTree(VAR), 1, <<RegBlock("l", <<"m", "l">>), RegBlock("svc", <<>>)>>, 1)}

RegisterIdle ==
  [stage |-> "idle", tree |-> NewTree(VAR), blocks |-> <<>>, before |-> NewTree(VAR),
   subnodes |-> <<>>]

RegisterStart == rgs = RegisterIdle

\* UnmarshalSpecTree has parsed a body and evaluated its attributes
BodyParsed ==
  /\ rgs.stage = "idle"
  /\ \E tree \in PriorTrees, blocks \in RegBodies :
       rgs' = [stage |-> "parsed", tree |-> tree, blocks |-> blocks, before |-> tree,
               subnodes |-> <<>>]
  /\ UNCHANGED nonRegisterVars

\* addBlocksToTree(node, hclBody.Blocks)
RegisterBlocks ==
  /\ rgs.stage = "parsed"
  /\ rgs' = [rgs EXCEPT !.stage = "registered",
                        !.tree = registerBlocks(rgs.tree, 1, rgs.blocks, 1)]
  /\ UNCHANGED nonRegisterVars

\* the functions of processBlockFields: subnode of every block
PopulateBlocks ==
  /\ rgs.stage = "registered"
  /\ rgs' = [rgs EXCEPT !.stage = "populated",
                        !.subnodes = [k \in DOMAIN rgs.blocks |->
                                        GetNode(rgs.tree, 1, rgs.blocks[k].Type,
                                                rgs.blocks[k].Labels)]]
  /\ UNCHANGED nonRegisterVars

RegisterReset ==
  /\ rgs.stage = "populated"
  /\ rgs' = RegisterIdle
  /\ UNCHANGED nonRegisterVars

NextRegister ==
  \/ BodyParsed
  \/ RegisterBlocks
  \/ PopulateBlocks
  \/ RegisterReset

(***************************************************************************)
(* evaluateExpressions as the loop it is: `for k, v := range bd.Attributes`*)
(* visits the attributes of the body in an order the Go runtime chooses,   *)
(* and every attribute is evaluated with CtyVariables of the tree as it is *)
(* then, with the items of the attributes visited before it.  The body is  *)
(* decoded on the root node, whose items the expressions see by name.      *)
(***************************************************************************)
\* the ways to go through a set
Orders(S) ==
  {o \in [1..Cardinality(S) -> S] : \A i, j \in 1..Cardinality(S) : i # j => o[i] # o[j]}

\* the loop from the i-th attribute of the order on: r is the result so far
RECURSIVE evaluateFrom(_, _, _, _)
evaluateFrom(r, attrs, order, i) ==
  IF i > Len(order) THEN r
  ELSE LET k == order[i]
           cv == ExpressionToCty(r.data, TRUE, attrs[k])
       IN IF cv.err THEN [r EXCEPT !.err = TRUE, !.kNulls = {}]
          ELSE evaluateFrom([r EXCEPT !.kNulls = IF cv.cv.t = "null" THEN @ \cup {k} ELSE @,
                                      !.data = Overlay(@, [n \in {k} |-> cv.cv]),
                                      !.bd.attrs = Overlay(@, [n \in {k} |-> Lit(cv.cv)])],
                            attrs, order, i + 1)

\* evaluateExpressions on the root node for one order of the range loop.
\* On an error the items stored before it stay in the node.
evaluateExpressionsInOrder(data, bd, order) ==
  evaluateFrom([err |-> FALSE, kNulls |-> {}, data |-> data, bd |-> bd], bd.attrs, order, 1)

\* documents for an Outer: title and count are fields, note is not; an
\* attribute is given outright or refers to another attribute by name
EvalAttrs ==
  AttrsWith([note |-> {Lit(CtyString("n")), Var("title")},
             title |-> {Lit(CtyString("x")), Var("note")},
             count |-> {Lit(CtyInt(7)), Var("title")}])

EvalDocs == {Body(a, <<>>) : a \in EvalAttrs}

\* the items of the root node when the decode starts: none, or those an
\* earlier decode on the same tree has stored
PriorData ==
  {NoData, [k \in {"note"} |-> CtyString("old")], [k \in {"title"} |-> CtyString("old")]}

\* the attributes that refer to an attribute of the same body
RefersWithin(bd) ==
  {k \in DOMAIN bd.attrs : bd.attrs[k].e = "var" /\ bd.attrs[k].name \in DOMAIN bd.attrs}

\* the rest of UnmarshalSpecTree for a body without blocks: the fields
\* sorted, the body sorted, the simple fields copied
decodeSimple(r, obj) ==
  LET cats == categorizeStructFields(obj.type, NoFields, NoRegistry, r.kNulls)
      parsed == categorizeHCLBody(r.data, r.bd, r.kNulls, cats.BlockFields,
                                  cats.SimpleFields, cats.Labels)
  IN IF parsed.err THEN [err |-> TRUE, v |-> obj]
     ELSE [err |-> FALSE,
           v |-> processSimpleFields(cats.SimpleFields, parsed.result.SimpleFieldsValue,
                                     processLabels(cats.Labels, obj, parsed.result.LabelExprs,
                                                   <<>>),
                                     parsed.result.ExistingAttrs)]

\* what the caller sees of a decode that evaluates in the given order
outcomeInOrder(data, bd, obj, order) ==
  LET r == evaluateExpressionsInOrder(data, bd, order)
  IN IF r.err THEN [err |-> TRUE, v |-> obj] ELSE decodeSimple(r, obj)

EvaluateIdle ==
  [stage |-> "idle", doc |-> EmptyBody, prior |-> NoData, order |-> <<>>,
   err |-> FALSE, data |-> NoData, kNulls |-> {}, bd |-> EmptyBody,
   target |-> ZeroStruct("Outer")]

EvaluateStart == evl = EvaluateIdle

\* UnmarshalSpecTree on the root node comes to evaluateExpressions; the
\* range loop takes one of the orders
EvaluateInOrder ==
  /\ evl.stage = "idle"
  /\ \E doc \in EvalDocs, prior \in PriorData :
       \E order \in Orders(DOMAIN doc.attrs) :
         LET r == evaluateExpressionsInOrder(prior, doc, order)
         IN evl' = [evl EXCEPT !.stage = IF r.err THEN "returned" ELSE "evaluated",
                               !.doc = doc, !.prior = prior, !.order = order,
                               !.err = r.err, !.data = r.data, !.kNulls = r.kNulls,
                               !.bd = r.bd]
  /\ UNCHANGED nonEvaluateVars

\* the fields are set from the evaluated body and the call returns
DecodeSimpleFields ==
  /\ evl.stage = "evaluated"
  /\ LET d == decodeSimple([err |-> FALSE, kNulls |-> evl.kNulls, data |-> evl.data,
                            bd |-> evl.bd], evl.target)
     IN evl' = [evl EXCEPT !.stage = "returned", !.err = d.err, !.target = d.v]
  /\ UNCHANGED nonEvaluateVars

EvaluateReset ==
  /\ evl.stage = "returned"
  /\ evl' = EvaluateIdle
  /\ UNCHANGED nonEvaluateVars

NextEvaluate ==
  \/ EvaluateInOrder
  \/ DecodeSimpleFields
  \/ EvaluateReset

Start ==
  /\ TreeStart /\ NumStart /\ GenStart /\ DecodeStart /\ ShareStart /\ ShapeStart
  /\ EntryStart
  /\ FldStart
  /\ FindStart
  /\ LockStart
  /\ ClassifyStart
  /\ HeaderStart
  /\ PartitionStart
  /\ RegisterStart
  /\ EvaluateStart

InitTree == Start

NextTree == TreeStep

SpecTree == InitTree /\ [][NextTree]_vars

InitNum == Start

SpecNum == InitNum /\ [][NextNum]_vars

InitGeneric == Start

SpecGeneric == InitGeneric /\ [][NextGeneric]_vars

InitDecode == Start

SpecDecode == InitDecode /\ [][NextDecode]_vars

InitShare == Start

SpecShare == InitShare /\ [][NextShare]_vars

InitShapes == Start

SpecShapes == InitShapes /\ [][NextShapes]_vars

InitEntry == Start

SpecEntry == InitEntry /\ [][NextEntry]_vars

InitFields == Start

SpecFields == InitFields /\ [][NextFields]_vars

InitFind == Start

SpecFind == InitFind /\ [][NextFind]_vars

InitLocks == Start

SpecLocks == InitLocks /\ [][NextLocks]_vars

InitClassify == Start

SpecClassify == InitClassify /\ [][NextClassify]_vars

InitHeader == Start

SpecHeader == InitHeader /\ [][NextHeader]_vars

InitPartition == Start

SpecPartition == InitPartition /\ [][NextPartition]_vars

InitRegister == Start

SpecRegister == InitRegister /\ [][NextRegister]_vars

InitEvaluate == Start

SpecEvaluate == InitEvaluate /\ [][NextEvaluate]_vars

\* the scheduler runs every goroutine that can take a step; nothing makes
\* a caller call
SpecLocksFair == SpecLocks /\ \A p \in Procs : WF_vars(Advance(p))

(***************************************************************************)
(* Properties of the Scope Tree                                            *)
(***************************************************************************)
\* children of node n that carry the given name
ChildrenNamed(n, name) == {i \in 1..Len(Downs[n]) : Name[Downs[n][i]] = name}

\* goroutines whose AddNode call has returned a node
AddNodeDone == {p \in Procs : pc[p] = "idle" /\ opname[p] = "AddNode" /\ ret[p] # NoNode}

\* C3: while no DeleteNode has run, AddNode calls that asked the same node for
\* the same child name all got the same child back, and that node has exactly
\* one child of the name.
C3_SameChildForAll ==
  deletes = 0 =>
    \A p \in AddNodeDone, q \in AddNodeDone :
      (Up[ret[p]] = Up[ret[q]] /\ Name[ret[p]] = Name[ret[q]]) =>
        /\ ret[p] = ret[q]
        /\ Cardinality(ChildrenNamed(Up[ret[p]], Name[ret[p]])) = 1

\* two goroutines have finished AddNode for the same name on the same node
C3_Witness ==
  /\ deletes = 0
  /\ \E p \in AddNodeDone, q \in AddNodeDone :
       p # q /\ ret[p] = ret[q] /\ Len(Downs[Up[ret[p]]]) = 1

\* C4: at every moment no node has two children of the same name.
C4_SiblingNamesUnique ==
  \A n \in Nodes : \A name \in NodeNames : Cardinality(ChildrenNamed(n, name)) <= 1

\* an AddNode/AddNodes call came back with a child that already existed,
\* and its parent still has that one child
C4_Witness ==
  \E p \in Procs :
    /\ pc[p] = "idle" /\ opname[p] \in {"AddNode", "AddNodes"} /\ ret[p] # NoNode
    /\ ret[p] < Len(Name)
    /\ Cardinality(ChildrenNamed(Up[ret[p]], Name[ret[p]])) = 1

(***************************************************************************)
(* Properties of the conversion layer                                      *)
(***************************************************************************)
\* the range of an integer kind, stated on sign and magnitude
InRangeOf(num, kind) ==
  IF kind \in UnsignedKinds
    THEN ~num.neg /\ BigLess(num.mag, BigPow2(Bits(kind)))
    ELSE IF num.neg THEN BigLeq(num.mag, BigPow2(Bits(kind) - 1))
         ELSE BigLess(num.mag, BigPow2(Bits(kind) - 1))

ConvOfWholeNumber == conv.op = "done" /\ conv.val.t = "number" /\ ~conv.val.num.frac

\* C8: ConvertCtyToFieldType of a whole number into an integer target gives
\* exactly that number, of the target's kind, when it lies in the target's
\* range, and an error when it does not; never a wrapped or sign-changed value.
C8_ExactOrError ==
  ConvOfWholeNumber =>
    IF InRangeOf(conv.val.num, conv.type)
      THEN ~conv.res.err /\ conv.res.v = GoNum(conv.type, conv.val.num)
      ELSE conv.res.err

\* 300 into uint8 was refused
C8_Witness ==
  /\ ConvOfWholeNumber
  /\ conv.val.num = NumInt(FALSE, BigFromInt(300))
  /\ conv.type = "uint8"
  /\ conv.res.err

\* C9: for every Go int or int64 n, NativeToCty(n) followed by CtyToNative
\* returns without error a value equal to n of kind int or int64.
C9_IntRoundTrip ==
  (rt.stage = "native" /\ rt.native.kind \in {"int", "int64"}) =>
    /\ ~rt.back.err
    /\ rt.back.v.kind \in {"int", "int64"}
    /\ rt.back.v.num = rt.native.num

\* the smallest int64 came back as an int64
C9_Witness ==
  /\ rt.stage = "native"
  /\ rt.native = GoNum("int64", NumInt(TRUE, BigPow2(63)))
  /\ rt.back = Native(rt.native)

(***************************************************************************)
(* The generic round trip                                                  *)
(***************************************************************************)
\* an expression made of scalars, lists and maps only: no null, no call
RECURSIVE PureExpr(_)
PureExpr(expr) ==
  IF expr.e = "lit" THEN expr.val.t # "null"
  ELSE IF expr.e = "call" THEN FALSE
  ELSE \A i \in DOMAIN expr.items : PureExpr(expr.items[i])

\* a document of pure data with blocks of at most two labels
RECURSIVE PureData(_)
PureData(body) ==
  /\ \A k \in DOMAIN body.attrs : PureExpr(body.attrs[k])
  /\ \A i \in DOMAIN body.blocks :
       Len(body.blocks[i].labels) <= 2 /\ PureData(body.blocks[i].body)

\* C2: for a document of pure data (scalars, lists, maps, blocks with 0, 1
\* or 2 labels, no variable reference or function call) the first Unmarshal
\* into a generic map succeeds, and Marshal followed by a second Unmarshal
\* succeeds and gives a value deep-equal to the first result.
C2_RoundTripPureData ==
  PureData(gen.doc) =>
    /\ gen.stage = "decoded" => ~gen.first.err
    /\ gen.stage = "redecoded" => ~gen.second.err /\ gen.second.v = gen.first.v

\* a pure document has come through both decodes
C2_Witness ==
  /\ gen.stage = "redecoded"
  /\ PureData(gen.doc)
  /\ gen.doc.attrs # NoAttrs

(***************************************************************************)
(* Decoding into a struct                                                  *)
(***************************************************************************)
Done == call.stage = "done"
StructTarget == call.target0.kind = "struct"

\* the target of a frame as it was when the frame was entered: the caller's
\* struct, or the clone of a prototype
Before(depth) == IF depth = 1 THEN call.target0 ELSE ZeroStruct(heap[frames[depth].addr].type)

\* C1: if a decode into a struct returns an error, every field of the
\* caller's target has the value it had before the call.
C1_AllOrNothing == (Done /\ StructTarget /\ call.err) => heap[1] = call.target0

\* a decode into a struct has failed in a nested block, after the labels and
\* the simple fields were processed
C1_Witness ==
  /\ Depth = 1
  /\ Top.pc = "return"
  /\ Top.err
  /\ Top.updated # NilAddr
  /\ Top.parsed.ExistingAttrs # {}

\* PopulateLabels has just run in the frame on top
AfterLabels == At("simple")

\* the label fields of the frame on top, by position
LabelField(i) == Top.cats.Labels[i]

\* C5: with one label handed down and two label fields, neither set by an
\* attribute nor beforehand, after PopulateLabels the first label field is
\* that label and the second is still empty.
C5_OneLabelTwoFields ==
  (/\ AfterLabels
   /\ Len(Top.cats.Labels) = 2
   /\ Len(Top.labels) = 1
   /\ DOMAIN Top.parsed.LabelExprs = {}
   /\ \A i \in 1..2 : Before(Depth).f[LabelField(i).Name] = GoString(""))
  => /\ heap[Top.addr].f[LabelField(1).Name] = GoString(Top.labels[1])
     /\ heap[Top.addr].f[LabelField(2).Name] = GoString("")

C5_Witness ==
  /\ AfterLabels
  /\ Len(Top.cats.Labels) = 2
  /\ Len(Top.labels) = 1
  /\ DOMAIN Top.parsed.LabelExprs = {}
  /\ \A i \in 1..2 : Before(Depth).f[LabelField(i).Name] = GoString("")

\* a label field's value once the label attributes are applied: the
\* attribute's string, or what the target held
Supplied(i) ==
  IF LabelField(i).tag \in DOMAIN Top.parsed.LabelExprs
    THEN GoString(Top.parsed.LabelExprs[LabelField(i).tag].s)
    ELSE Before(Depth).f[LabelField(i).Name]

\* C6: after PopulateLabels a label field that was supplied (beforehand or
\* by an attribute) holds the supplied value, and one that was not holds the
\* label handed down at its position, if there is one.
C6_PositionalLabelsFillEmpty ==
  AfterLabels =>
    \A i \in DOMAIN Top.cats.Labels :
      heap[Top.addr].f[LabelField(i).Name] =
        IF Supplied(i) # GoString("") THEN Supplied(i)
        ELSE IF i <= Len(Top.labels) THEN GoString(Top.labels[i])
        ELSE GoString("")

\* labels were handed down next to a supplied label field
C6_Witness ==
  /\ AfterLabels
  /\ Len(Top.labels) = 2
  /\ Len(Top.cats.Labels) = 2
  /\ Supplied(1) # GoString("")
  /\ Supplied(2) = GoString("")

\* the attributes of the caller's document that evaluate to null
NullNamed == {k \in DOMAIN call.doc.attrs : call.doc.attrs[k] \in NullExprs}

\* C7: an attribute that evaluates to null (a) is absent from the result of
\* a decode into a generic map, which returns no error, and (b) leaves the
\* simple field with its tag as it was in a decode into a struct, which
\* returns no error when nothing but null attributes is decoded.
C7_NullAttributeSuppressed ==
  (Done /\ NullNamed # {}) =>
    IF StructTarget
      THEN /\ \A i \in DOMAIN StructFields(call.target0.type) :
                LET field == StructFields(call.target0.type)[i]
                IN field.tag \in NullNamed =>
                     heap[1].f[field.Name] = call.target0.f[field.Name]
           /\ (DOMAIN call.doc.attrs = NullNamed /\ call.doc.blocks = <<>>) => ~call.err
      ELSE /\ ~call.err
           /\ \A k \in NullNamed :
                IF k \in DOMAIN call.target0.m
                  THEN k \in DOMAIN heap[1].m /\ heap[1].m[k] = call.target0.m[k]
                  ELSE k \notin DOMAIN heap[1].m

C7_Witness ==
  /\ Done
  /\ NullNamed # {}
  /\ StructTarget
  /\ call.target0.f["Title"] # GoString("")
  /\ "count" \in DOMAIN call.doc.attrs
  /\ ~call.err

WrittenKeys == {ATTRIBUTES, FUNCTIONS} \cup {TypeName(t) : t \in StructTypes}

AtEntry == Depth = 1 /\ At("dispatch")

\* the document refers to a variable that none of its own attributes gives
RefersOutside(doc) ==
  \E k \in DOMAIN doc.attrs :
    doc.attrs[k].e = "var" /\ doc.attrs[k].name \notin DOMAIN doc.attrs

\* the registry handed to the call holds a scope tree already
RegistryHasTree == ~call.ref0.isnil /\ ATTRIBUTES \in DOMAIN call.ref0.m

C11_Reused ==
  /\ call.again
  /\ Done
  /\ RegistryHasTree
  /\ RefersOutside(call.doc)
  /\ ~call.err
  /\ heap[1].f["Count"] = GoNum("uint8", NumInt(FALSE, BigFromInt(7)))

(***************************************************************************)
(* Concurrent calls                                                        *)
(***************************************************************************)
\* two goroutines are in the middle of a write of the same shared map
TwoWriters ==
  \E g \in Callers, h \in Callers :
    g # h /\ gos[g].writing # NoMap /\ gos[g].writing = gos[h].writing

\* a scope tree has been used by more than one call
TreeOfTwo == \E id \in DOMAIN strees : Cardinality(strees[id]) > 1

\* C12: while goroutines run UnmarshalSpec on one registry and one
\* specification, no two of them are writing the same shared map at the same
\* moment, and no scope tree is read or written by more than one of them.
C12_SharedInputsSafe == ~TwoWriters /\ ~TreeOfTwo

\* two calls that were given an empty registry have both come to the write
\* of ref[ATTRIBUTES]
C12_Witness ==
  /\ \A g \in Callers : g <= 2 => gos[g].pc = "tree_store"
  /\ ATTRIBUTES \notin DOMAIN sreg

(***************************************************************************)
(* Block fields of every shape                                             *)
(***************************************************************************)
\* a block field of the struct has been processed and the call went on or
\* returned
ZooProcessed == zoo.path = "struct" /\ zoo.at # "" /\ zoo.stage \in {"blocks", "done"}

\* the specification selected, for a block of the field, a class the
\* registry does not have
ClassAbsent == \E i \in DOMAIN zoo.sel : zoo.sel[i] \notin DOMAIN zoo.reg

\* the field processed last holds what it held when the call began
FieldAsBefore == zheap[1].f[zoo.at] = zoo.target0[1].f[zoo.at]

\* C13: whatever the shape of a block field, when the class the
\* specification selects for one of the field's blocks is not in the
\* registry the decode returns an error and the field is left as it was
C13_MissingClassIsError ==
  (ZooProcessed /\ ClassAbsent) => (zoo.stage = "done" /\ zoo.err /\ FieldAsBefore)

\* a field of the given name failed for a missing class, the target having
\* held a value there before
AbsentAt(name) ==
  /\ ZooProcessed /\ ClassAbsent /\ zoo.at = name /\ zoo.err
  /\ zheap[1].f[name] # ZeroStruct("Zoo").f[name]

C13_Witness == AbsentAt("Map") /\ Len(zoo.sel) = 2
C13_AbsentSingle == AbsentAt("One")
C13_AbsentList == AbsentAt("List") /\ Len(zoo.sel) = 2
C13_AbsentMap2 == AbsentAt("Map2") /\ Len(zoo.sel) = 2

\* the blocks of the document for the one-label map field
MapBlocks == SelectSeq(zoo.doc.blocks, LAMBDA b : b.type = "map")

\* the classes the specification allows for the label: the one it names
\* for the label, any of its classes when it names none
ClassesFor(label) ==
  LET mf == zoo.om.Map.MapFields
  IN IF label \in DOMAIN mf THEN {mf[label].ClassName}
     ELSE {mf[l].ClassName : l \in DOMAIN mf}

\* the port attribute of the last block of the map field with the label
LastPort(label) ==
  MapBlocks[LastWith([k \in DOMAIN MapBlocks |-> MapBlocks[k].labels[1]], label)]
    .body.attrs["port"].val.num

\* C14: after a successful decode the one-label map field has exactly the
\* first labels of its blocks as keys, and the entry of a label is a fresh
\* instance of the class of that label, filled from the (last) block with
\* the label
C14_MapFieldByLabel ==
  (zoo.path = "struct" /\ zoo.stage = "done" /\ ~zoo.err /\ Len(MapBlocks) > 0) =>
    LET m == zheap[1].f.Map.m
    IN /\ DOMAIN m = {MapBlocks[k].labels[1] : k \in DOMAIN MapBlocks}
       /\ \A l \in DOMAIN m :
            /\ m[l].kind = "ptr"
            /\ m[l].addr > Len(zoo.target0)
            /\ m[l].addr <= Len(zheap)
            /\ \A l2 \in DOMAIN m : m[l2].addr = m[l].addr => l2 = l
            /\ \E c \in ClassesFor(l) :
                 c \in DOMAIN zoo.reg /\ zheap[m[l].addr].type = zoo.reg[c].type
            /\ zheap[m[l].addr].f.Port = GoNum("uint8", LastPort(l))

\* two blocks with one label, the second with another port, decoded into a
\* target whose map had an entry
C14_Witness ==
  /\ zoo.path = "struct" /\ zoo.stage = "done" /\ ~zoo.err
  /\ Len(MapBlocks) = 2
  /\ MapBlocks[1].labels = MapBlocks[2].labels
  /\ MapBlocks[1].body # MapBlocks[2].body
  /\ "old" \in DOMAIN zoo.target0[1].f.Map.m

C14_TwoKeys ==
  /\ zoo.path = "struct" /\ zoo.stage = "done" /\ ~zoo.err
  /\ Cardinality(DOMAIN zheap[1].f.Map.m) = 2

\* the document has a block with more than two labels
ThreeLabels == \E i \in DOMAIN zoo.doc.blocks : Len(zoo.doc.blocks[i].labels) > 2

\* C15: a block with more than two labels makes the decode an error, into
\* a generic map and into a struct alike
C15_ThreeLabelsIsError == (zoo.stage = "done" /\ ThreeLabels) => zoo.err

\* a struct decode that took a block of three labels
C15_Witness ==
  /\ zoo.path = "struct" /\ zoo.stage = "done" /\ ThreeLabels /\ ~zoo.err
  /\ zoo.doc.blocks[1].type = "one"
C15_ListTakesThree ==
  /\ zoo.path = "struct" /\ zoo.stage = "done" /\ ThreeLabels /\ ~zoo.err
  /\ zoo.doc.blocks[1].type = "list"
\* where the count is checked
C15_CheckedPaths ==
  (zoo.stage = "done" /\ ThreeLabels /\ ~zoo.err) =>
     (zoo.path = "struct" /\ zoo.doc.blocks[1].type \in {"one", "list", "dict"})

(***************************************************************************)
(* The entry points                                                        *)
(***************************************************************************)
\* the call that returned was given a target that is not a pointer
NotAPointer == entry.stage = "done" /\ ~entry.arg.pointer

\* the call left the caller's registry and the target's value as they were
ChangedNothing == entry.out.ref = entry.ref0 /\ entry.out.v = entry.arg.v

\* C16: Unmarshal, UnmarshalSpec and UnmarshalSpecTree return an error and
\* change nothing when the target is not a pointer, nil included
C16_NonPointerIsError == NotAPointer => (entry.out.err /\ ChangedNothing)

\* Unmarshal given nil returned without an error
C16_Witness ==
  NotAPointer /\ entry.fn = "Unmarshal" /\ entry.arg.isnil /\ ~entry.out.err
\* UnmarshalSpec given a value wrote to the caller's registry
C16_RegistryWritten ==
  NotAPointer /\ entry.fn = "UnmarshalSpec" /\ entry.out.err /\ entry.out.ref # entry.ref0
\* where the sentence holds: UnmarshalSpecTree, and the error of every call
\* but Unmarshal(nil)
C16_TreeEntryRefuses ==
  /\ (NotAPointer /\ entry.fn = "UnmarshalSpecTree") => (entry.out.err /\ ChangedNothing)
  /\ (NotAPointer /\ ~(entry.fn = "Unmarshal" /\ entry.arg.isnil)) => entry.out.err
  /\ (NotAPointer /\ entry.fn = "Unmarshal") => ChangedNothing
\* a pointer to a map is decoded into
C16_PointerDecoded ==
  entry.stage = "done" /\ entry.arg.pointer /\ ~entry.out.err /\ entry.out.v # entry.arg.v

(***************************************************************************)
(* Field exclusion                                                         *)
(***************************************************************************)
\* the rule of exclusion: unexported, a tag of exactly "-", or a tag that
\* ends with ",-"
Excluded ==
  ~fld.exported \/ fld.tag = <<"-">> \/ HasSuffix(fld.tag, <<",", "-">>)

\* C17: on the encode and on the decode path a field is in no bucket when
\* it is unexported, tagged "-" or tagged with a trailing ",-", and the tag
\* rule excludes no other field that has a name in its tag
C17_FieldExclusion ==
  fld.stage = "done" =>
    /\ Excluded => fld.bucket = NoBucket
    /\ (~Excluded /\ parseHCLTag(fld.tag)[1] \notin {<<>>, <<"-">>}) => fld.bucket # NoBucket

\* the field tagged hcl:"n,-" is classified
C17_Witness ==
  /\ fld.stage = "done" /\ fld.exported /\ fld.tag = <<"n", ",", "-">>
  /\ fld.onpath = "decode" /\ fld.bucket = "SimpleFields"
C17_EncodedToo ==
  /\ fld.stage = "done" /\ fld.exported /\ fld.tag = <<"n", ",", "-">>
  /\ fld.onpath = "encode" /\ fld.bucket = "fields"

\* what the code does exclude: the unexported fields and the fields whose
\* name part is "-" or empty, on the decode path unless the modifier is label
C17_ExcludedByName ==
  fld.stage = "done" =>
    /\ ~fld.exported => fld.bucket = NoBucket
    /\ (fld.tag = <<"-">>) => fld.bucket = NoBucket
    /\ (fld.exported /\ fld.bucket = NoBucket) =>
         parseHCLTag(fld.tag)[1] \in {<<"-">>, <<>>}

(***************************************************************************)
(* FindNode                                                                *)
(***************************************************************************)
\* node d is below node n
RECURSIVE Below(_, _)
Below(n, d) ==
  \E i \in DOMAIN ft.Downs[n] : ft.Downs[n][i] = d \/ Below(ft.Downs[n][i], d)

\* the nodes n, then a child, then a child of that ... are named as names
RECURSIVE ChainAt(_, _)
ChainAt(n, names) ==
  /\ ft.Name[n] = names[1]
  /\ Len(names) = 1 \/ \E i \in DOMAIN ft.Downs[n] : ChainAt(ft.Downs[n][i], Tail(names))

\* below the receiver some chain of nodes, each the child of the one
\* before, has the names
ChainBelow == \E n \in FindNodes : Below(fcall.node, n) /\ ChainAt(n, fcall.names)

\* C18: FindNode returns a node when a chain with the names exists below
\* the receiver, not-found only when none exists, and the node it returns
\* has the last of the names
C18_FindNodeComplete ==
  fcall.stage = "done" =>
    /\ ChainBelow => fcall.ret # NoNode
    /\ fcall.ret # NoNode => ft.Name[fcall.ret] = fcall.names[Len(fcall.names)]

\* the search took the first node named a, which has no child b, and gave
\* up, with a chain a, b elsewhere below the receiver
C18_Witness ==
  /\ fcall.stage = "done" /\ fcall.node = 1 /\ fcall.names = <<"a", "b">>
  /\ ChainBelow /\ fcall.ret = NoNode

\* what FindNode does give: a node with the last name, below the receiver;
\* and a single name is found whenever a node below has it
C18_FoundIsBelow ==
  fcall.stage = "done" =>
    /\ fcall.ret # NoNode =>
         (Below(fcall.node, fcall.ret) /\ ft.Name[fcall.ret] = fcall.names[Len(fcall.names)])
    /\ (Len(fcall.names) = 1 /\ ChainBelow) => fcall.ret # NoNode

(***************************************************************************)
(* Locks of the tree                                                       *)
(***************************************************************************)
\* the nodes whose lock the goroutine holds, for writing or for reading
Held(p) == {n \in Nodes : mu[n].w = p \/ p \in mu[n].r}

\* the goroutine is about to take a lock
AtLock(p) == pc[p] \in {"add_lock", "del_lock", "get_rlock", "find_rlock", "vars_rlock"}

\* every goroutine holds at most one lock, and none when it goes for one
OneLockAtATime ==
  \A p \in Procs : Cardinality(Held(p)) <= 1 /\ (AtLock(p) => Held(p) = {})

\* when a method is in progress some goroutine can take its next step
NoDeadlock == (\E p \in Procs : pc[p] # "idle") => ENABLED (\E p \in Procs : Advance(p))

\* C19: every method of the tree holds the lock of at most one node at a
\* time and has released it when it goes on to another node; no state of
\* concurrent methods is stuck; and with fair scheduling every method
\* that was called returns
C19_OneLockNoDeadlockTerminates ==
  /\ []OneLockAtATime
  /\ []NoDeadlock
  /\ \A p \in Procs : (pc[p] # "idle") ~> (pc[p] = "idle")

\* a walk two activations deep waits for the lock of a node a writer holds
C19_Witness ==
  \E p \in Procs, q \in Procs :
    /\ opname[p] \in {"FindNode", "Variables", "CtyVariables"}
    /\ Len(stack[p]) >= 2 /\ AtLock(p)
    /\ mu[WalkTop(p).node].w = q



(***************************************************************************)
(* CtyToNative on numbers                                                  *)
(***************************************************************************)
NativeOfNumber == conv.op = "native" /\ conv.val.t = "number"

\* the number fits int64
FitsInt64(num) == ~IntLess(num, NumInt(TRUE, BigPow2(63))) /\ ~IntLess(NumInt(FALSE, MaxInt64), num)

\* C20: for every number, of either sign, whole or not, CtyToNative returns
\* without error a value numerically equal to its input, of an integer kind
\* for a whole number and of a floating kind otherwise.
C20_TotalAndExact ==
  NativeOfNumber =>
    /\ ~conv.res.err
    /\ conv.res.v.num = conv.val.num
    /\ IF conv.val.num.frac
         THEN conv.res.v.kind \in FloatKinds
         ELSE conv.res.v.kind \in SignedKinds

\* -1.5 was refused
C20_Witness ==
  /\ NativeOfNumber
  /\ conv.val.num = Num(TRUE, BigOne, TRUE)
  /\ conv.res.err

\* 1.5 came back as a floating value
C20_PositiveFraction ==
  /\ NativeOfNumber
  /\ conv.val.num = Num(FALSE, BigOne, TRUE)
  /\ conv.res = Native(GoNum("float32", conv.val.num))

\* a whole number beyond int64 was refused
C20_BeyondInt64 ==
  /\ NativeOfNumber
  /\ conv.val.num = NumInt(FALSE, BigPow2(63))
  /\ conv.res.err

\* what the code does: a whole number within int64 comes back exact as an int
\* or int64, a positive non-whole number exact as a floating value, and a
\* negative non-whole number, or a whole number outside int64, is an error
C20_WhereExact ==
  NativeOfNumber =>
    LET num == conv.val.num
    IN IF ~num.frac
         THEN IF FitsInt64(num)
                THEN /\ ~conv.res.err
                     /\ conv.res.v.num = num
                     /\ conv.res.v.kind \in {"int", "int64"}
                ELSE conv.res.err
       ELSE IF ~num.neg
         THEN /\ ~conv.res.err
              /\ conv.res.v.num = num
              /\ conv.res.v.kind \in FloatKinds
       ELSE conv.res.err

(***************************************************************************)
(* The default entry of a map specification                                *)
(***************************************************************************)
\* the entry under the smallest key, in the order of sort.Strings
SmallestEntry(m) == m[SortedKeys(DOMAIN m)[1]]

\* first and firstFirst as a loop in the order of the keys comes to them
SmallestFirsts(result) ==
  IF IsMap2Struct(result)
    THEN <<SmallestEntry(result.Map2Fields),
           SmallestEntry(SmallestEntry(result.Map2Fields).MapFields)>>
    ELSE <<SmallestEntry(result.MapFields), SmallestEntry(result.MapFields)>>

\* the blocks of the document for the field processed last
AtBlocks == zoo.parsed.BlockData[FieldByName("Zoo", zoo.at).tag]

\* a map field was processed whose specification has entries, and a block
\* has a label that is no key of the specification
DefaultUsed ==
  /\ ZooProcessed
  /\ zoo.at \in {"Map", "Map2"}
  /\ LET result == zoo.om[zoo.at]
         keys0 == IF zoo.at = "Map" THEN DOMAIN result.MapFields ELSE DOMAIN result.Map2Fields
         keys1(a) == DOMAIN result.Map2Fields[a].MapFields
         label(k, i) == IF Len(AtBlocks[k].labels) >= i THEN AtBlocks[k].labels[i] ELSE ""
     IN /\ keys0 # {}
        /\ \E k \in DOMAIN zoo.sel :
             \/ label(k, 1) \notin keys0
             \/ zoo.at = "Map2" /\ label(k, 1) \in keys0 /\ label(k, 2) \notin keys1(label(k, 1))

\* what the field's function gives when the default is the entry under the
\* smallest key
WithSmallest ==
  LET fs == SmallestFirsts(zoo.om[zoo.at])
  IN processBlockField(zoo.reg, zoo.target0, zoo.target0[1].f[zoo.at], AtBlocks,
                       zoo.om[zoo.at], FieldByName("Zoo", zoo.at).kind, fs[1], fs[2])

\* the decode selected the classes and set the field as the given result has it
DecodedAs(r) ==
  /\ zoo.sel = r.sel
  /\ zoo.err = r.err
  /\ zheap = IF r.err THEN zoo.target0 ELSE [r.hp EXCEPT ![1].f[zoo.at] = r.f]

\* C21: when a block's label is no key of a one-label or two-label map
\* specification, the default entry is the one under the smallest key: the
\* decode selects the classes and gives the result that this default gives,
\* so two decodes of the same document select and produce the same
C21_DefaultIsSmallestKey == DefaultUsed => DecodedAs(WithSmallest)

\* the block "x" of a one-label map field whose specification names Missing
\* for "k" and Inner for "l" was decoded as Inner
C21_Witness ==
  /\ DefaultUsed
  /\ zoo.at = "Map"
  /\ Len(AtBlocks) = 1
  /\ AtBlocks[1].labels = <<"x">>
  /\ zoo.sel = <<"dethcl.Inner">>
  /\ ~zoo.err

\* the same block of the same call was refused for the class Missing
C21_OtherRun ==
  /\ DefaultUsed
  /\ zoo.at = "Map"
  /\ Len(AtBlocks) = 1
  /\ AtBlocks[1].labels = <<"x">>
  /\ zoo.sel = <<"dethcl.Missing">>
  /\ zoo.err
  /\ "dethcl.Inner" \in DOMAIN zoo.reg

\* a two-label map field took a default that is not under the smallest key
C21_Map2Differs ==
  /\ DefaultUsed
  /\ zoo.at = "Map2"
  /\ ~DecodedAs(WithSmallest)

\* a specification with one entry has one default
C21_OneEntry ==
  (DefaultUsed /\ zoo.at = "Map" /\ Cardinality(DOMAIN zoo.om.Map.MapFields) = 1) =>
     DecodedAs(WithSmallest)

(***************************************************************************)
(* The list shape                                                          *)
(***************************************************************************)
\* a field with a list specification of at least one entry was processed
ListProcessed ==
  /\ ZooProcessed
  /\ zoo.at \in {"List", "Dict"}
  /\ Len(zoo.om[zoo.at].ListFields) >= 1

\* the entry of the list specification a block of the field is for
ListEntry(k) ==
  LET lf == zoo.om[zoo.at].ListFields
  IN IF zoo.at = "List" /\ k <= Len(lf) THEN lf[k] ELSE lf[1]

\* the pointer is to a struct this call made, of the class of the entry for
\* block k and with the port of block k
DecodedFrom(ptr, k) ==
  /\ ptr.kind = "ptr"
  /\ ptr.addr > Len(zoo.target0)
  /\ ptr.addr <= Len(zheap)
  /\ zheap[ptr.addr].type = zoo.reg[ListEntry(k).ClassName].type
  /\ zheap[ptr.addr].f.Port = GoNum("uint8", AtBlocks[k].body.attrs["port"].val.num)

\* C22: under a list specification of m >= 1 entries, block k of a slice
\* field is decoded as entry k when there is one and as the first entry
\* otherwise, and the slice has the n blocks in the order of the document;
\* every block of a map field is decoded as the first entry
C22_ListByIndex ==
  ListProcessed =>
    /\ \A k \in DOMAIN zoo.sel : zoo.sel[k] = ListEntry(k).ClassName
    /\ ~zoo.err =>
         /\ Len(zoo.sel) = Len(AtBlocks)
         /\ zoo.at = "List" =>
              /\ Len(zheap[1].f.List.items) = Len(AtBlocks)
              /\ \A k \in DOMAIN AtBlocks : DecodedFrom(zheap[1].f.List.items[k], k)
              /\ \A j, k \in DOMAIN AtBlocks :
                   zheap[1].f.List.items[j] = zheap[1].f.List.items[k] => j = k
         /\ zoo.at = "Dict" =>
              \A k \in DOMAIN AtBlocks :
                (\A j \in DOMAIN AtBlocks : j > k => AtBlocks[j].labels[1] # AtBlocks[k].labels[1])
                  => DecodedFrom(zheap[1].f.Dict.m[AtBlocks[k].labels[1]], k)

\* two blocks with different ports decoded into a slice under a list of
\* one entry
C22_Witness ==
  /\ ListProcessed /\ ~zoo.err
  /\ zoo.at = "List"
  /\ Len(zoo.om.List.ListFields) = 1
  /\ Len(AtBlocks) = 2
  /\ AtBlocks[1].body # AtBlocks[2].body

\* two blocks decoded as the two entries of the list, which differ
C22_EachItsEntry ==
  /\ ListProcessed /\ ~zoo.err
  /\ zoo.at = "List"
  /\ zoo.sel = <<"dethcl.Inner", "dethcl.Alias">>

\* two blocks of a map field decoded as the first of two entries
C22_MapFieldFirstEntry ==
  /\ ListProcessed /\ ~zoo.err
  /\ zoo.at = "Dict"
  /\ Len(zoo.om.Dict.ListFields) = 2
  /\ zoo.sel = <<"dethcl.Inner", "dethcl.Inner">>
  /\ Cardinality(DOMAIN zheap[1].f.Dict.m) = 2

(***************************************************************************)
(* Specifications without entries, blocks without labels                   *)
(***************************************************************************)
\* the call ended in a run-time panic within the field's function
Panicked == zoo.path = "struct" /\ zoo.stage = "panic"

\* the specification of the field the call panicked at
PanicSpec == zoo.om[zoo.at]

\* C30: UnmarshalSpec returns, with a decoded object or with an error, for
\* every specification the construction operations make, a list or a map of
\* no entries included, and for blocks without a label
C30_ReturnsValueOrError == ~Panicked

\* a block for a slice field whose list specification has no entry
C30_Witness ==
  /\ Panicked
  /\ zoo.at = "List"
  /\ PanicSpec.ListFields = <<>>

\* a labelled block for a map field whose map specification has no entry
C30_EmptyMap ==
  /\ Panicked
  /\ zoo.at = "Map"
  /\ DOMAIN PanicSpec.MapFields = {}
  /\ \A k \in DOMAIN AtBlocks : Len(AtBlocks[k].labels) = 1

\* a block for a two-label map field whose specification has no entry
C30_EmptyMap2 ==
  /\ Panicked
  /\ zoo.at = "Map2"
  /\ DOMAIN PanicSpec.Map2Fields = {}

\* a block without a label for a map field with a map specification
C30_NoLabelMap ==
  /\ Panicked
  /\ zoo.at = "Map"
  /\ DOMAIN PanicSpec.MapFields # {}
  /\ \E k \in DOMAIN AtBlocks : Len(AtBlocks[k].labels) = 0

\* a block without a label for a map field with a list specification,
\* after the block was decoded
C30_NoLabelList ==
  /\ Panicked
  /\ zoo.at = "Dict"
  /\ Len(PanicSpec.ListFields) > 0
  /\ \E k \in DOMAIN AtBlocks : Len(AtBlocks[k].labels) = 0
  /\ Len(zoo.sel) > 0

\* where the call panics: on a specification without entries, or on a block
\* without a label for a map field that is not a two-label one
C30_PanicsOnlyThere ==
  Panicked =>
    \/ IsListStruct(PanicSpec) /\ PanicSpec.ListFields = <<>>
    \/ IsMapStruct(PanicSpec) /\ DOMAIN PanicSpec.MapFields = {}
    \/ IsMap2Struct(PanicSpec) /\ DOMAIN PanicSpec.Map2Fields = {}
    \/ /\ zoo.at \in {"Map", "Dict"}
       /\ \E k \in DOMAIN AtBlocks : Len(AtBlocks[k].labels) = 0

\* a block without a label ahead of which another block is refused does not
\* panic: the error is returned first
C30_ErrorComesFirst ==
  /\ zoo.path = "struct" /\ zoo.stage = "done" /\ zoo.err
  /\ zoo.at = "Map"
  /\ Len(AtBlocks) = 2
  /\ Len(AtBlocks[2].labels) = 0

(***************************************************************************)
(* The two field classifications                                           *)
(***************************************************************************)
\* both have classified a field that is not a label
BothClassified == cls.stage = "both" /\ ~cls.label

\* C23: getFields of the encoder and isComplexField / categorizeFields
\* classify every field, whatever its type and value (nil and empty slices
\* and maps included), the same way as simple or block-like
C23_ClassifiersAgree == BothClassified => cls.enc = cls.shared

\* an empty slice that is not nil: a block for the encoder, simple for the
\* shared classifier
C23_Witness ==
  /\ BothClassified
  /\ cls.v = FieldValue("slice", FALSE, FALSE, FALSE, 0, "")
  /\ cls.enc = "block"
  /\ cls.shared = "simple"

\* a nil map: a block for the encoder, left out by the shared classifier
C23_NilMap ==
  /\ BothClassified
  /\ cls.v = FieldValue("map", FALSE, FALSE, TRUE, 0, "")
  /\ cls.enc = "block"
  /\ cls.shared = "skip"

\* the two agree on everything that is not a slice or a map without elements
C23_AgreeElsewhere ==
  (BothClassified /\ ~(cls.v.kind \in {"slice", "map"} /\ cls.v.len = 0 /\ ~cls.v.nilptr)) =>
     cls.enc = cls.shared

(***************************************************************************)
(* The labels of the encoder's block headers                               *)
(***************************************************************************)
RECURSIVE LabelCounts(_)
RECURSIVE TextLabelCounts(_)

\* the numbers of labels of the block headers in the lines, at any depth
LabelCounts(lines) ==
  UNION {IF lines[i].l = "block"
           THEN {Len(lines[i].labels)} \cup LabelCounts(lines[i].lines)
           ELSE TextLabelCounts(lines[i].rhs) : i \in DOMAIN lines}

TextLabelCounts(text) ==
  IF text.x = "braces" THEN LabelCounts(text.lines)
  ELSE IF text.x = "list" THEN UNION {TextLabelCounts(text.items[i]) : i \in DOMAIN text.items}
  ELSE {}

\* the number of maps one inside the other, the value included
RECURSIVE DepthOf(_)
DepthOf(v) ==
  IF v.kind # "map" \/ DOMAIN v.m = {} THEN 0
  ELSE 1 + CHOOSE d \in 0..(MaxDepth + 1) :
             /\ \E k \in DOMAIN v.m : DepthOf(v.m[k]) = d
             /\ \A k \in DOMAIN v.m : DepthOf(v.m[k]) <= d

\* Marshal has encoded a map, decoded from a document or built by the caller
Marshalled == gen.stage \in {"encoded", "deep"}

\* C24: no block header in the output of Marshal of a generic map has more
\* than two labels, however deep the maps are nested
C24_AtMostTwoLabels == Marshalled => \A n \in LabelCounts(gen.text) : n <= 2

\* maps nested to the full depth came out as a block of two labels holding a block
C24_Witness ==
  /\ gen.stage = "deep"
  /\ DepthOf(gen.first.v) = MaxDepth + 1
  /\ \E i \in DOMAIN gen.text :
       /\ gen.text[i].l = "block"
       /\ Len(gen.text[i].labels) = 2
       /\ \E j \in DOMAIN gen.text[i].lines : gen.text[i].lines[j].l = "block"

(***************************************************************************)
(* The labels of a map entry's block                                       *)
(***************************************************************************)
\* the label fields of the entry, in field order
EntryLabels == <<hdr.v.f.Type.s, hdr.v.f.Name.s>>

\* an entry was encoded whose label fields, where set, hold the labels the
\* key has at the same positions
LabelsFromParent ==
  /\ hdr.stage = "done"
  /\ \A i \in DOMAIN EntryLabels :
       EntryLabels[i] # "" => (i <= Len(keyLabels(hdr.key)) /\ EntryLabels[i] = keyLabels(hdr.key)[i])

\* C25: a label field that holds the label its parent's key supplies at the
\* same position is not written again: the block's header has the labels
\* of the key, each once, and no more than two
C25_LabelsOnce ==
  LabelsFromParent => (hdr.labels = keyLabels(hdr.key) /\ Len(hdr.labels) <= 2)

\* the key ["a", "b"] and the entry with Type "a" and Name "b": the header
\* has "b" twice
C25_Witness ==
  /\ LabelsFromParent
  /\ hdr.key = [k |-> "array", items |-> <<"a", "b">>]
  /\ EntryLabels = <<"a", "b">>
  /\ hdr.labels = <<"a", "b", "b">>

\* with a key of one label the header is the key
C25_OneLabelKey ==
  (LabelsFromParent /\ Len(keyLabels(hdr.key)) <= 1) => hdr.labels = keyLabels(hdr.key)

\* a string key and the entry that holds it
C25_StringKey ==
  /\ LabelsFromParent
  /\ hdr.key = [k |-> "string", items |-> <<"a">>]
  /\ EntryLabels = <<"a", "">>
  /\ hdr.labels = <<"a">>


(***************************************************************************)
(* Simple fields and the values the scope tree already holds               *)
(***************************************************************************)
\* the simple fields of the struct being decoded whose tag the document
\* being decoded does not have
AbsentSimpleFields ==
  {i \in DOMAIN Top.cats.SimpleFields : Top.cats.SimpleFields[i].tag \notin DOMAIN Top.doc.attrs}

\* the node of the decode holds a value under the tag of a simple field the
\* document does not have
StoredButAbsent ==
  \E i \in AbsentSimpleFields : Top.cats.SimpleFields[i].tag \in DOMAIN scope[Top.node]

\* C27: processSimpleFields leaves every simple field whose tag the document
\* does not have as it was, whatever the node holds under that tag
C27_SimpleOnlyFromDocument ==
  [][ProcessSimpleFields =>
       \A i \in AbsentSimpleFields :
         heap'[Top.updated].f[Top.cats.SimpleFields[i].Name]
           = heap[Top.updated].f[Top.cats.SimpleFields[i].Name]]_vars

\* a second call on the same tree is past processSimpleFields: the node
\* holds the title the first document gave, the second document has no
\* title, and the new target's Title is still empty
C27_Witness ==
  /\ At("dynamic")
  /\ call.again
  /\ "title" \notin DOMAIN Top.doc.attrs
  /\ "title" \in DOMAIN scope[Top.node]
  /\ scope[Top.node]["title"] = CtyString("x")
  /\ heap[Top.updated].f["Title"] = GoString("")

\* a field processSimpleFields changes has its attribute in the document,
\* and the attribute is not null
C27_AssignedHasAttribute ==
  [][ProcessSimpleFields =>
       \A i \in DOMAIN Top.cats.SimpleFields :
         heap'[Top.updated].f[Top.cats.SimpleFields[i].Name]
           # heap[Top.updated].f[Top.cats.SimpleFields[i].Name]
         => /\ Top.cats.SimpleFields[i].tag \in DOMAIN Top.doc.attrs
            /\ Top.cats.SimpleFields[i].tag \notin Top.nullAttrs]_vars

\* a first call keeps the caller's title when the document has none
C27_KeptPrior ==
  /\ At("dynamic")
  /\ ~call.again
  /\ heap[Top.updated].type = "Outer"
  /\ "title" \notin DOMAIN Top.doc.attrs
  /\ heap[Top.updated].f["Title"] = GoString("old")

(***************************************************************************)
(* Every attribute and block in exactly one place                          *)
(***************************************************************************)
Partitioned == prt.stage = "done" /\ ~prt.err

\* all blocks of a map from tag to blocks
BlocksIn(m) == UNION {{m[t][i] : i \in DOMAIN m[t]} : t \in DOMAIN m}

\* the places of the result an attribute is in
AttrPlaces(k) ==
  (IF k \in prt.result.InterfaceAttrs THEN {"interface"} ELSE {})
    \cup (IF k \in prt.result.LabelExprs THEN {"label"} ELSE {})
    \cup (IF \E b \in BlocksIn(prt.result.BlockData) : b.from = "attribute" /\ b.Type = k
            THEN {"block"} ELSE {})
    \cup (IF k \in prt.result.bodyAttributes THEN {"rest"} ELSE {})

\* the places of the result the i-th block of the document is in
BlockPlaces(i) ==
  LET b == DocBlock(prt.blocks[i], i)
  IN (IF b \in BlocksIn(prt.result.BlockData) THEN {"block"} ELSE {})
       \cup (IF b \in BlocksIn(prt.result.InterfaceBlocks) THEN {"interface"} ELSE {})
       \cup (IF \E j \in DOMAIN prt.result.bodyBlocks : prt.result.bodyBlocks[j] = b
               THEN {"rest"} ELSE {})

LiveAttrs == {k \in DOMAIN prt.attrs : prt.attrs[k].t # "null"}

\* an attribute with the tag of a block field whose text has no brace group
\* with something inside: [], [1, 2], {}
NoGroup(k) == prt.tags[k] = "block" /\ prt.attrs[k].n = 0

\* C26: after categorizeHCLBody every attribute that is not null and every
\* block of the document is in exactly one of the label, dynamic, block
\* and leftover places
C26_ExactlyOnePlace ==
  Partitioned =>
    /\ \A k \in LiveAttrs : Cardinality(AttrPlaces(k)) = 1
    /\ \A i \in DOMAIN prt.blocks : Cardinality(BlockPlaces(i)) = 1

\* an attribute with the tag of a block field and the value [] is in none
C26_Witness ==
  /\ Partitioned
  /\ \E k \in LiveAttrs :
       /\ prt.tags[k] = "block"
       /\ prt.attrs[k] = AttrValue("tuple", 0)
       /\ AttrPlaces(k) = {}

\* apart from such attributes everything is in exactly one place, and
\* nothing is ever in two
C26_ElseExactlyOne ==
  Partitioned =>
    /\ \A k \in LiveAttrs : IF NoGroup(k) THEN AttrPlaces(k) = {}
                            ELSE Cardinality(AttrPlaces(k)) = 1
    /\ \A i \in DOMAIN prt.blocks : Cardinality(BlockPlaces(i)) = 1

\* each place holds what its tag says, in the document's order
C26_PlaceByTag ==
  Partitioned =>
    /\ \A k \in LiveAttrs : AttrPlaces(k) \subseteq
         {IF prt.tags[k] = "other" THEN "rest" ELSE prt.tags[k]}
    /\ \A i \in DOMAIN prt.blocks :
         BlockPlaces(i) = {IF prt.tags[prt.blocks[i]] \in {"label", "other"} THEN "rest"
                           ELSE prt.tags[prt.blocks[i]]}
    /\ prt.result.ExistingAttrs = prt.result.bodyAttributes

\* an attribute of two brace groups became two blocks, ahead of the
\* document's block of the same type
C26_CutIntoBlocks ==
  /\ Partitioned
  /\ \E k \in LiveAttrs :
       /\ k \in DOMAIN prt.result.BlockData
       /\ prt.result.BlockData[k] = <<CutBlock(k, 1), CutBlock(k, 2), DocBlock(k, 1)>>

\* a string under the tag of a block field is an error
C26_ScalarIsError ==
  /\ prt.stage = "done"
  /\ prt.err
  /\ \E k \in LiveAttrs : prt.tags[k] = "block" /\ prt.attrs[k].t = "scalar"

(***************************************************************************)
(* Every block finds its node                                              *)
(***************************************************************************)
\* the names from below node 1 down to node n
RECURSIVE RegPathOf(_, _)
RegPathOf(tree, n) ==
  IF n = 1 \/ n = NoNode THEN <<>> ELSE Append(RegPathOf(tree, tree.Up[n]), tree.Name[n])

RegNodes(tree) == 1..Len(tree.Name)

\* C28: after addBlocksToTree every block's path of type and labels leads
\* GetNode to a node of the tree, the node at that path; adding the blocks a
\* second time leaves the tree as it is; and every block of
\* processBlockFields has a subnode that is not nil
C28_BlocksResolve ==
  /\ rgs.stage \in {"registered", "populated"} =>
       /\ \A k \in DOMAIN rgs.blocks :
            LET n == GetNode(rgs.tree, 1, rgs.blocks[k].Type, rgs.blocks[k].Labels)
            IN /\ n \in RegNodes(rgs.tree) \ {1}
               /\ RegPathOf(rgs.tree, n) = <<rgs.blocks[k].Type>> \o rgs.blocks[k].Labels
       /\ registerBlocks(rgs.tree, 1, rgs.blocks, 1) = rgs.tree
       /\ \A n \in RegNodes(rgs.tree) : \A i, j \in DOMAIN rgs.tree.Downs[n] :
            i # j => rgs.tree.Name[rgs.tree.Downs[n][i]] # rgs.tree.Name[rgs.tree.Downs[n][j]]
  /\ rgs.stage = "populated" => \A k \in DOMAIN rgs.subnodes : rgs.subnodes[k] # NoNode

\* two blocks of the same type and labels in one body, on a tree that had
\* the type already: one node for both, two nodes added for the labels
C28_Witness ==
  /\ rgs.stage = "populated"
  /\ Len(rgs.blocks) = 2
  /\ rgs.blocks[1] = rgs.blocks[2]
  /\ rgs.blocks[1] = RegBlock("svc", <<"l", "m">>)
  /\ rgs.subnodes[1] = rgs.subnodes[2]
  /\ Len(rgs.before.Name) = 3
  /\ Len(rgs.tree.Name) = 4

\* the tree grows by the new paths only: the nodes it had are as they were
C28_OldNodesKept ==
  rgs.stage \in {"registered", "populated"} =>
    /\ Len(rgs.before.Name) <= Len(rgs.tree.Name)
    /\ \A n \in RegNodes(rgs.before) :
         /\ rgs.tree.Name[n] = rgs.before.Name[n]
         /\ rgs.tree.Up[n] = rgs.before.Up[n]
         /\ SubSeq(rgs.tree.Downs[n], 1, Len(rgs.before.Downs[n])) = rgs.before.Downs[n]
    /\ \A n \in RegNodes(rgs.tree) \ RegNodes(rgs.before) :
         \E k \in DOMAIN rgs.blocks : \E m \in 1..(1 + Len(rgs.blocks[k].Labels)) :
           RegPathOf(rgs.tree, n) = SubSeq(<<rgs.blocks[k].Type>> \o rgs.blocks[k].Labels, 1, m)

\* a label that is the empty string has a node of its own
C28_EmptyLabel ==
  /\ rgs.stage = "populated"
  /\ \E k \in DOMAIN rgs.blocks :
       /\ rgs.blocks[k].Labels = <<"">>
       /\ rgs.tree.Name[rgs.subnodes[k]] = ""
       /\ rgs.subnodes[k] # 1

\* a block's type node is another block's label node
C28_SharedPrefix ==
  /\ rgs.stage = "populated"
  /\ Len(rgs.blocks) = 2
  /\ rgs.blocks[1] = RegBlock("l", <<"m">>)
  /\ rgs.blocks[2] = RegBlock("l", <<"m", "l">>)
  /\ rgs.tree.Up[rgs.subnodes[2]] = rgs.subnodes[1]

(***************************************************************************)
(* The order of the attributes and what the caller gets                    *)
(***************************************************************************)
EvalReturned == evl.stage = "returned"

\* what the caller sees
EvalOutcome == [err |-> evl.err, v |-> evl.target]

\* what the caller would have seen for each order of the same body
OtherOutcomes ==
  {outcomeInOrder(evl.prior, evl.doc, ZeroStruct("Outer"), o) :
     o \in Orders(DOMAIN evl.doc.attrs)}

\* C29: whatever order evaluateExpressions took, the call returned what it
\* returns for every other order of the same document: the same error or
\* the same decoded values
C29_OrderDoesNotShow == EvalReturned => OtherOutcomes = {EvalOutcome}

\* title = note evaluated before note = "n" on a new tree: an error, where
\* the other order decodes Title "n"
C29_Witness ==
  /\ EvalReturned
  /\ evl.err
  /\ evl.prior = NoData
  /\ evl.doc = Body([k \in {"note", "title"} |->
                       IF k = "note" THEN Lit(CtyString("n")) ELSE Var("note")], <<>>)
  /\ evl.order = <<"title", "note">>
  /\ \E o \in OtherOutcomes : ~o.err /\ o.v.f["Title"] = GoString("n")

\* both orders succeed with different values: the node held a note from an
\* earlier decode, which title takes when it is evaluated first
C29_StaleValue ==
  /\ EvalReturned
  /\ ~evl.err
  /\ evl.target.f["Title"] = GoString("old")
  /\ \E o \in OtherOutcomes : ~o.err /\ o.v.f["Title"] = GoString("n")

\* a body in which no attribute refers to an attribute of the same body
\* decodes the same in every order, and as the decode model's evaluation
\* of all attributes against the variables at the start
C29_SameWithoutReferences ==
  (EvalReturned /\ RefersWithin(evl.doc) = {}) =>
    /\ OtherOutcomes = {EvalOutcome}
    /\ LET r == evaluateExpressions(Put(NoRegistry, ATTRIBUTES, TreeEntry), evl.prior,
                                    evl.prior, evl.doc)
       IN EvalOutcome = IF r.err THEN [err |-> TRUE, v |-> ZeroStruct("Outer")]
                    ELSE decodeSimple(r, ZeroStruct("Outer"))

====
